---- MODULE Spec2Model ----
(***************************************************************************)
(* The interactive TUI engine of moko-cli (internal/tui): the Bubble Tea   *)
(* Model, its Update function with one handler per message kind and per    *)
(* focus panel, and the tasks (tea.Cmd) the handlers emit, which deliver   *)
(* their result messages back to Update in any order.                      *)
(*                                                                         *)
(* The Model is one record `m`, passed by value through the handlers as in *)
(* the Go code: every handler is an operator from (m, msg) to the pair     *)
(* [m |-> returned model, cmds |-> emitted commands].                      *)
(* Cursors and indexes are 0-based as in Go; sequences are 1-based.        *)
(***************************************************************************)
EXTENDS Integers, Sequences, FiniteSets, Bags

VARIABLES
    m,                \* the Model value held by the Bubble Tea runtime
    pendingSearch,    \* seq tags of searchStations tasks still running
    pendingBoard,     \* bag of fetchBoard tasks still running
    pendingJourney,   \* bag of fetchJourney tasks still running
    autoTicks,        \* number of armed autoRefreshTick timers
    countdownTicks,   \* number of armed countdownTick timers
    running,          \* FALSE once a handler has returned tea.Quit
    lastMsg,          \* history: what the message Update processed last was
    boardSource,      \* history: the fetchBoard task whose reply is displayed
    call,             \* a call of one of the pure functions, with its arguments
    ret,              \* what that call has returned, once it has
    files,            \* the files of the cache directory
    clock,            \* the instant time.Now() returns, in seconds
    lastSet,          \* history: per key, what the latest Set stored and when
    lastGet           \* history: the latest Get and what it returned

vars == <<m, pendingSearch, pendingBoard, pendingJourney, autoTicks,
          countdownTicks, running, lastMsg, boardSource, call, ret,
          files, clock, lastSet, lastGet>>

\* the variables of the TUI engine and of its pure functions
tuiVars == <<m, pendingSearch, pendingBoard, pendingJourney, autoTicks,
             countdownTicks, running, lastMsg, boardSource, call, ret>>
\* the variables of the file cache
cacheVars == <<files, clock, lastSet, lastGet>>

---------------------------------------------------------------------------
(* Bounds of the model *)

\* searchSeq is an unbounded int in the code; Enter is disabled beyond this.
MaxSeq == 2
\* at most this many API tasks (board and journey fetches) are in flight
MaxPending == 2
\* at most this many timers of one kind are armed
MaxTicks == 1
\* the longest list and the tallest window visibleRange is called with
MaxTotal == 10
MaxVisible == 6
\* the longest journey FindCurrentStopIndex is called with, the minutes between
\* two scheduled stops and the largest delay of a stop in minutes
MaxStops == 2
Headway == 2
MaxDelay == 1
\* the lifetime of a cache entry (90 s in the client) and the last instant
\* the clock reaches, in seconds
TTL == 2
MaxClock == 5

(* The inputs the environment can deliver *)

\* a Location is identified by its EVA number
EVAs == {1, 2}
\* replies of SearchLocations
StationLists == {<<>>, <<1>>, <<2, 1>>}

\* a Departure is reduced to the two fields the engine reads
Dep(j, d) == [JourneyID |-> j, Destination |-> d]
D0 == Dep("", "A")
D1 == Dep("j1", "A")
D2 == Dep("j2", "B")
\* replies of GetDepartures / GetArrivals
DepartureLists == {<<>>, <<D0>>, <<D1, D2>>, <<D2, D1>>}

\* a Stop is reduced to its scheduled arrival (minutes, NoTime = nil) and delay
NoTime == -1
Stop(a, d) == [Arr |-> a, Delay |-> d]
\* a journey of n stops, stop i scheduled at minute i, running d minutes late
Timetable(n, d) == [i \in 1..n |-> Stop(i, d)]
\* replies of GetJourney (the stop lists) and the instants time.Now() returns
StopLists == {Timetable(0, 0), Timetable(2, 1)}
Instants == {1, 3}

\* terminal heights a WindowSizeMsg reports
Heights == {12}

NoErr == "nil"
Errs == {"err"}
NilStation == 0
NilJourney == [ID |-> "", Stops |-> <<>>, isNil |-> TRUE]
Journey(id, stops) == [ID |-> id, Stops |-> stops, isNil |-> FALSE]

---------------------------------------------------------------------------
(* model.go *)

\* the apiName column of modeLabels; the code lists 10 transport modes
modeLabels == <<"ICE">>
NumModes == Len(modeLabels)

\* textinput CharLimit; the code allows 100 characters
CharLimit == 1

New ==
    [ height |-> 0,
      query |-> <<>>, inputFocused |-> TRUE,
      focus |-> "SEARCH",
      modeFilters |-> [i \in 1..NumModes |-> TRUE], filterCursor |-> 0,
      boardMode |-> "DEPARTURE", boardCursor |-> 0,
      autoRefresh |-> FALSE, lastUpdate |-> 0,
      stations |-> <<>>, stationCursor |-> 0,
      stationsLoading |-> FALSE, stationsErr |-> NoErr, searchSeq |-> 0,
      selectedStation |-> NilStation,
      departures |-> <<>>, departureCursor |-> 0,
      departuresLoading |-> FALSE, departuresErr |-> NoErr,
      destinationList |-> <<>>, destinationFilters |-> <<>>,
      destinationCursor |-> 0,
      selectedJourneyID |-> "", journey |-> NilJourney,
      journeyLoading |-> FALSE, journeyErr |-> NoErr,
      showJourney |-> FALSE, journeyScroll |-> 0,
      journeyManualScroll |-> FALSE ]

\* the API names of the active filters, in modeLabels order
RECURSIVE activeModes(_, _)
activeModes(filters, i) ==
    IF i > Len(filters) THEN <<>>
    ELSE (IF filters[i] THEN <<modeLabels[i]>> ELSE <<>>)
         \o activeModes(filters, i + 1)

selectedModes(mm) == activeModes(mm.modeFilters, 1)

---------------------------------------------------------------------------
(* commands.go: a handler returns the commands it emits *)

NoCmds == [search |-> {}, board |-> {}, journey |-> {},
           autoTick |-> 0, countdownTick |-> 0, quit |-> FALSE]

Ret(mm, c) == [m |-> mm, cmds |-> c]

\* the request a fetchBoard task sends; its reply is tagged with eva only
fetchBoard(station, modes, mode) ==
    [NoCmds EXCEPT !.board = {[eva |-> station, modes |-> modes, mode |-> mode]}]

fetchJourney(journeyID) == [NoCmds EXCEPT !.journey = {journeyID}]

searchStations(seq) == [NoCmds EXCEPT !.search = {seq}]

\* tea.Batch of the commands of a and b
Batch(a, b) ==
    [search |-> a.search \cup b.search, board |-> a.board \cup b.board,
     journey |-> a.journey \cup b.journey,
     autoTick |-> a.autoTick + b.autoTick,
     countdownTick |-> a.countdownTick + b.countdownTick,
     quit |-> a.quit \/ b.quit]

autoRefreshTick == [NoCmds EXCEPT !.autoTick = 1]
countdownTick == [NoCmds EXCEPT !.countdownTick = 1]
Quit == [NoCmds EXCEPT !.quit = TRUE]

---------------------------------------------------------------------------
(* update.go: the result handlers *)

Max(a, b) == IF a > b THEN a ELSE b

\* handleSearchResult past its staleness check
applySearchResult(mm, msg) ==
    LET m1 == [mm EXCEPT !.stationsLoading = FALSE, !.stationsErr = msg.err] IN
    IF msg.err # NoErr THEN Ret(m1, NoCmds)
    ELSE
    LET m2 == [m1 EXCEPT !.stations = msg.locations, !.stationCursor = 0] IN
    IF Len(m2.stations) > 0
    THEN LET station == m2.stations[1]
             m3 == [m2 EXCEPT !.focus = "STATIONS",
                              !.inputFocused = FALSE,
                              !.selectedStation = station,
                              !.departuresLoading = TRUE,
                              !.departuresErr = NoErr,
                              !.departures = <<>>,
                              !.departureCursor = 0,
                              !.showJourney = FALSE]
         IN Ret(m3, fetchBoard(station, selectedModes(m3), m3.boardMode))
    ELSE Ret(m2, NoCmds)

\* a handleSearchResult that takes every result, whatever its seq
handleSearchResultAnySeq(mm, msg) == applySearchResult(mm, msg)

handleSearchResult(mm, msg) ==
    IF msg.seq # mm.searchSeq THEN Ret(mm, NoCmds)    \* ignore stale results
    ELSE applySearchResult(mm, msg)

\* index of the first departure with the journey id (the range loop), -1 if none
RECURSIVE findJourney(_, _, _)
findJourney(deps, journeyID, i) ==
    IF i >= Len(deps) THEN -1
    ELSE IF deps[i + 1].JourneyID = journeyID THEN i
    ELSE findJourney(deps, journeyID, i + 1)

\* a relocateCursor that leaves the cursor where it was when the selected
\* journey is found
relocateCursorKeepIndex(m2, hadData) ==
    LET i == findJourney(m2.departures, m2.selectedJourneyID, 0) IN
    IF hadData /\ m2.selectedJourneyID # ""
    THEN IF i >= 0
         THEN m2
         ELSE [m2 EXCEPT !.showJourney = FALSE,
                         !.journey = NilJourney,
                         !.selectedJourneyID = ""]
    ELSE IF ~hadData THEN [m2 EXCEPT !.departureCursor = 0]
    ELSE m2

\* the cursor continuity step of handleDeparturesResult: m2 holds the new
\* departures, hadData tells whether departures were on display before
relocateCursor(m2, hadData) ==
    LET i == findJourney(m2.departures, m2.selectedJourneyID, 0) IN
    IF hadData /\ m2.selectedJourneyID # ""
    THEN IF i >= 0
         THEN [m2 EXCEPT !.departureCursor = i]
         ELSE [m2 EXCEPT !.showJourney = FALSE,
                         !.journey = NilJourney,
                         !.selectedJourneyID = ""]
    ELSE IF ~hadData THEN [m2 EXCEPT !.departureCursor = 0]
    ELSE m2

\* handleDeparturesResult past its station check
applyDeparturesResult(mm, msg) ==
    LET m1 == [mm EXCEPT !.departuresLoading = FALSE,
                         !.departuresErr = msg.err] IN
    IF msg.err # NoErr THEN Ret(m1, NoCmds)
    ELSE
    LET hadData == Len(mm.departures) > 0
        m2 == [m1 EXCEPT !.departures = msg.departures]
        m3 == relocateCursor(m2, hadData)
        \* clamp cursor if list shrank
        m4 == IF m3.departureCursor >= Len(m3.departures)
                 /\ Len(m3.departures) > 0
              THEN [m3 EXCEPT !.departureCursor = Len(m3.departures) - 1]
              ELSE m3
    IN Ret([m4 EXCEPT !.lastUpdate = 1], NoCmds)

\* a handleDeparturesResult that takes the board of any station once a
\* station is selected
handleDeparturesResultAnyStation(mm, msg) ==
    IF mm.selectedStation = NilStation THEN Ret(mm, NoCmds)
    ELSE applyDeparturesResult(mm, msg)

handleDeparturesResult(mm, msg) ==
    \* ignore if station changed
    IF mm.selectedStation = NilStation \/ msg.stationEVA # mm.selectedStation
    THEN Ret(mm, NoCmds)
    ELSE applyDeparturesResult(mm, msg)

(* models.ToJourney (journey.go) *)

\* a stop of the JourneyResponse: its scheduled and realtime (EZ) arrival and
\* departure in minutes, NoTime where the field is empty
Halt(sa, ra, sd, rd) ==
    [AnkunftsZeitpunkt |-> sa, EZAnkunftsZeitpunkt |-> ra,
     AbfahrtsZeitpunkt |-> sd, EZAbfahrtsZeitpunkt |-> rd]

\* the Stop ToJourney builds of a halt: the effective arrival is the realtime
\* one if there is one, the delay is that of the arrival, or that of the
\* departure if the arrival has none
toStop(h) ==
    LET SchedArr == h.AnkunftsZeitpunkt
        RTArr == h.EZAnkunftsZeitpunkt
        SchedDep == h.AbfahrtsZeitpunkt
        RTDep == h.EZAbfahrtsZeitpunkt
        DepDelay == IF SchedDep # NoTime /\ RTDep # NoTime
                    THEN RTDep - SchedDep ELSE 0
        ArrDelay == IF SchedArr # NoTime /\ RTArr # NoTime
                    THEN RTArr - SchedArr ELSE 0
    IN [SchedArr |-> SchedArr, RTArr |-> RTArr,
        Arr |-> IF RTArr # NoTime THEN RTArr ELSE SchedArr,
        Delay |-> IF ArrDelay = 0 THEN DepDelay ELSE ArrDelay]

\* the Stops of the Journey ToJourney returns
ToJourney(halte) == [i \in 1..Len(halte) |-> toStop(halte[i])]

(* output.FindCurrentStopIndex (table.go) *)

\* the backwards scan: largest 0-based index i <= from whose scheduled
\* arrival is set and not after t, -1 if the loop runs out
RECURSIVE scanBack(_, _, _)
scanBack(stops, t, i) ==
    IF i < 0 THEN -1
    ELSE IF stops[i + 1].Arr # NoTime /\ ~(t < stops[i + 1].Arr) THEN i
    ELSE scanBack(stops, t, i - 1)

FindCurrentStopIndex(stops, now) ==
    IF Len(stops) = 0 THEN -1
    ELSE
    LET s1 == scanBack(stops, now, Len(stops) - 1)
        delay == IF s1 >= 0 THEN stops[s1 + 1].Delay ELSE 0
        virtualNow == now - delay
        s2 == scanBack(stops, virtualNow, Len(stops) - 1)
    IN IF s2 >= 0 THEN s2 ELSE 0

\* a showJourneyResult that scrolls to the current stop on every result
showJourneyResultAlwaysAuto(mm, msg) ==
    LET m1 == [mm EXCEPT !.journeyLoading = FALSE, !.journeyErr = msg.err]
        m2 == [m1 EXCEPT !.journey = msg.journey, !.showJourney = TRUE]
        currentIdx == FindCurrentStopIndex(m2.journey.Stops, msg.now)
    IN Ret([m2 EXCEPT !.journeyManualScroll = FALSE,
                      !.journeyScroll =
                          IF currentIdx >= 0 THEN currentIdx ELSE 0],
           NoCmds)

\* msg.now is the instant time.Now() returns inside the handler
\* handleJourneyResult for a result without error
showJourneyResult(mm, msg) ==
    LET m1 == [mm EXCEPT !.journeyLoading = FALSE, !.journeyErr = msg.err]
        wasShowing == mm.showJourney /\ ~mm.journey.isNil
        m2 == [m1 EXCEPT !.journey = msg.journey, !.showJourney = TRUE]
        n == Len(m2.journey.Stops)
        \* always clamp the scroll position after setting the journey
        m3 == IF ~m2.journey.isNil /\ n > 0
              THEN [m2 EXCEPT !.journeyScroll =
                        Max(0, IF m2.journeyScroll >= n THEN n - 1
                               ELSE m2.journeyScroll)]
              ELSE m2
        currentIdx == FindCurrentStopIndex(m3.journey.Stops, msg.now)
    IN IF wasShowing /\ m3.journeyManualScroll
       THEN Ret(m3, NoCmds)
       ELSE Ret([m3 EXCEPT !.journeyManualScroll = FALSE,
                           !.journeyScroll =
                               IF currentIdx >= 0 THEN currentIdx ELSE 0],
                NoCmds)

\* a handleJourneyResult that drops the result of another journey than the
\* selected one, as the other two result handlers drop stale results
handleJourneyResultDropStale(mm, msg) ==
    IF msg.journeyID # mm.selectedJourneyID THEN Ret(mm, NoCmds)
    ELSE IF msg.err # NoErr
    THEN Ret([mm EXCEPT !.journeyLoading = FALSE, !.journeyErr = msg.err],
             NoCmds)
    ELSE showJourneyResult(mm, msg)

\* a handleJourneyResult that closes the journey view on an error
handleJourneyResultCloseOnError(mm, msg) ==
    IF msg.err # NoErr
    THEN Ret([mm EXCEPT !.journeyLoading = FALSE,
                        !.journeyErr = msg.err,
                        !.journey = NilJourney,
                        !.showJourney = FALSE], NoCmds)
    ELSE showJourneyResult(mm, msg)

handleJourneyResult(mm, msg) ==
    IF msg.err # NoErr
    THEN Ret([mm EXCEPT !.journeyLoading = FALSE, !.journeyErr = msg.err],
             NoCmds)
    ELSE showJourneyResult(mm, msg)

---------------------------------------------------------------------------
(* update.go: the key handlers *)

\* strings.TrimSpace on the query (a sequence of characters)
RECURSIVE trimLeft(_)
trimLeft(q) == IF Len(q) > 0 /\ Head(q) = " " THEN trimLeft(Tail(q)) ELSE q
RECURSIVE trimRight(_)
trimRight(q) ==
    IF Len(q) > 0 /\ q[Len(q)] = " " THEN trimRight(SubSeq(q, 1, Len(q) - 1))
    ELSE q
TrimSpace(q) == trimRight(trimLeft(q))

\* keys that carry one printable rune; a rune other than the blank is kept
\* as "x", which is all TrimSpace distinguishes
Runes == {"/", "j", "k", " ", "a", "h", "l", "q", "x"}
runeOf(k) == IF k = " " THEN " " ELSE "x"

\* textinput.Update for a key message: a rune is appended up to CharLimit
inputUpdate(mm, k) ==
    IF k \in Runes /\ mm.inputFocused /\ Len(mm.query) < CharLimit
    THEN [mm EXCEPT !.query = Append(mm.query, runeOf(k))]
    ELSE mm

\* Go integer division (truncates toward zero)
GoDiv(a, b) == IF a >= 0 THEN a \div b ELSE -((-a) \div b)

\* a search focus that leaves the input blurred
focusSearchInputBlurred(mm) == [mm EXCEPT !.focus = "SEARCH"]

\* a search focus that rewinds the journey
focusSearchInputRewind(mm) ==
    [mm EXCEPT !.focus = "SEARCH", !.inputFocused = TRUE, !.journeyScroll = 0]

focusSearchInput(mm) == [mm EXCEPT !.focus = "SEARCH", !.inputFocused = TRUE]

\* a submitSearch that tests the query as typed, blanks included
submitSearchUntrimmed(mm) ==
    IF mm.query = <<>> THEN Ret(mm, NoCmds)
    ELSE LET m1 == [mm EXCEPT !.searchSeq = mm.searchSeq + 1,
                              !.stationsLoading = TRUE,
                              !.stationsErr = NoErr]
         IN Ret(m1, searchStations(m1.searchSeq))

\* a search that leaves the error of the search before
submitSearchKeepErr(mm) ==
    IF TrimSpace(mm.query) = <<>> THEN Ret(mm, NoCmds)
    ELSE LET m1 == [mm EXCEPT !.searchSeq = mm.searchSeq + 1,
                              !.stationsLoading = TRUE]
         IN Ret(m1, searchStations(m1.searchSeq))

\* the "enter" case of handleSearchKeys
submitSearch(mm) ==
    IF TrimSpace(mm.query) = <<>> THEN Ret(mm, NoCmds)
    ELSE LET m1 == [mm EXCEPT !.searchSeq = mm.searchSeq + 1,
                              !.stationsLoading = TRUE,
                              !.stationsErr = NoErr]
         IN Ret(m1, searchStations(m1.searchSeq))

handleSearchKeys(mm, k) ==
    CASE k = "enter" -> submitSearch(mm)
      [] k = "esc" -> Ret([mm EXCEPT !.query = <<>>], NoCmds)
      [] k = "tab" ->
           Ret([mm EXCEPT !.focus = "FILTERS", !.inputFocused = FALSE], NoCmds)
      [] k = "shift+tab" ->
           \* navigate backward to the last available panel
           Ret([mm EXCEPT !.focus =
                    IF mm.showJourney THEN "JOURNEY"
                    ELSE IF Len(mm.departures) > 0 THEN "DEPARTURES"
                    ELSE IF Len(mm.stations) > 0 THEN "STATIONS"
                    ELSE "AUTO_REFRESH",
                  !.inputFocused = FALSE], NoCmds)
      [] OTHER -> Ret(inputUpdate(mm, k), NoCmds)

\* list handlers that leave the cursor as it arrives
clampCursorNever(c, n) == c

\* the cursor clamp at the start of the list handlers
clampCursor(c, n) ==
    IF n > 0 THEN (IF Max(c, 0) >= n THEN n - 1 ELSE Max(c, 0)) ELSE c

\* a page of at least one row
listPageSizeAtLeastOne(mm) == Max(1, mm.height - 10)

\* the page of the station and departure lists
listPageSize(mm) == IF mm.height - 10 < 1 THEN 10 ELSE mm.height - 10

\* the new station selection and its board fetch (the "enter" case)
selectStation(mm, station) ==
    LET m1 == [mm EXCEPT !.selectedStation = station,
                         !.departuresLoading = TRUE,
                         !.departuresErr = NoErr,
                         !.departures = <<>>,
                         !.departureCursor = 0,
                         !.showJourney = FALSE,
                         !.journey = NilJourney]
    IN Ret(m1, fetchBoard(station, selectedModes(m1), m1.boardMode))

handleStationKeys(mm, k) ==
    LET n == Len(mm.stations)
        m0 == [mm EXCEPT !.stationCursor = clampCursor(mm.stationCursor, n)]
        c == m0.stationCursor
    IN
    CASE k = "q" -> Ret(m0, Quit)
      [] k = "tab" ->
           IF Len(m0.departures) > 0
           THEN Ret([m0 EXCEPT !.focus = "DEPARTURES"], NoCmds)
           ELSE Ret(focusSearchInput(m0), NoCmds)
      [] k = "shift+tab" -> Ret([m0 EXCEPT !.focus = "AUTO_REFRESH"], NoCmds)
      [] k \in {"esc", "/"} -> Ret(focusSearchInput(m0), NoCmds)
      [] k \in {"j", "down"} ->
           Ret([m0 EXCEPT !.stationCursor = IF c < n - 1 THEN c + 1 ELSE c],
               NoCmds)
      [] k \in {"k", "up"} ->
           Ret([m0 EXCEPT !.stationCursor = IF c > 0 THEN c - 1 ELSE c], NoCmds)
      [] k = "pgdown" ->
           IF n > 0
           THEN Ret([m0 EXCEPT !.stationCursor =
                        IF c + listPageSize(m0) >= n THEN n - 1
                        ELSE c + listPageSize(m0)], NoCmds)
           ELSE Ret(m0, NoCmds)
      [] k = "pgup" ->
           IF n > 0
           THEN Ret([m0 EXCEPT !.stationCursor = Max(c - listPageSize(m0), 0)],
                    NoCmds)
           ELSE Ret(m0, NoCmds)
      [] k = "home" -> Ret([m0 EXCEPT !.stationCursor = 0], NoCmds)
      [] k = "end" ->
           IF n > 0 THEN Ret([m0 EXCEPT !.stationCursor = n - 1], NoCmds)
           ELSE Ret(m0, NoCmds)
      [] k = "enter" ->
           IF n > 0 THEN selectStation(m0, m0.stations[c + 1])
           ELSE Ret(m0, NoCmds)
      [] OTHER -> Ret(m0, NoCmds)

handleDepartureKeys(mm, k) ==
    LET n == Len(mm.departures)
        m0 == [mm EXCEPT !.departureCursor = clampCursor(mm.departureCursor, n)]
        c == m0.departureCursor
    IN
    CASE k = "q" -> Ret(m0, Quit)
      [] k = "tab" ->
           IF m0.showJourney THEN Ret([m0 EXCEPT !.focus = "JOURNEY"], NoCmds)
           ELSE Ret(focusSearchInput(m0), NoCmds)
      [] k = "shift+tab" -> Ret([m0 EXCEPT !.focus = "STATIONS"], NoCmds)
      [] k = "esc" ->
           IF m0.showJourney
           THEN Ret([m0 EXCEPT !.showJourney = FALSE,
                               !.journey = NilJourney,
                               !.selectedJourneyID = ""], NoCmds)
           ELSE Ret([m0 EXCEPT !.focus = "STATIONS"], NoCmds)
      [] k = "/" -> Ret(focusSearchInput(m0), NoCmds)
      [] k \in {"j", "down"} ->
           Ret([m0 EXCEPT !.departureCursor = IF c < n - 1 THEN c + 1 ELSE c],
               NoCmds)
      [] k \in {"k", "up"} ->
           Ret([m0 EXCEPT !.departureCursor = IF c > 0 THEN c - 1 ELSE c],
               NoCmds)
      [] k = "pgdown" ->
           IF n > 0
           THEN Ret([m0 EXCEPT !.departureCursor =
                        IF c + listPageSize(m0) >= n THEN n - 1
                        ELSE c + listPageSize(m0)], NoCmds)
           ELSE Ret(m0, NoCmds)
      [] k = "pgup" ->
           IF n > 0
           THEN Ret([m0 EXCEPT !.departureCursor =
                        Max(c - listPageSize(m0), 0)], NoCmds)
           ELSE Ret(m0, NoCmds)
      [] k = "home" -> Ret([m0 EXCEPT !.departureCursor = 0], NoCmds)
      [] k = "end" ->
           IF n > 0 THEN Ret([m0 EXCEPT !.departureCursor = n - 1], NoCmds)
           ELSE Ret(m0, NoCmds)
      [] k = "enter" ->
           IF n > 0 /\ m0.departures[c + 1].JourneyID # ""
           THEN LET dep == m0.departures[c + 1]
                IN Ret([m0 EXCEPT !.selectedJourneyID = dep.JourneyID,
                                  !.journeyLoading = TRUE,
                                  !.journeyErr = NoErr,
                                  !.journey = NilJourney],
                       fetchJourney(dep.JourneyID))
           ELSE Ret(m0, NoCmds)
      [] OTHER -> Ret(m0, NoCmds)

\* the refresh commands shared by the toggle and the tick: the board of the
\* selected station and the journey on display
refreshCmds(mm) ==
    Batch(IF mm.selectedStation # NilStation
          THEN fetchBoard(mm.selectedStation, selectedModes(mm), mm.boardMode)
          ELSE NoCmds,
          IF mm.showJourney /\ mm.selectedJourneyID # ""
          THEN fetchJourney(mm.selectedJourneyID)
          ELSE NoCmds)

handleAutoRefreshKeys(mm, k) ==
    CASE k \in {" ", "enter"} ->
           LET m1 == [mm EXCEPT !.autoRefresh = ~mm.autoRefresh] IN
           IF m1.autoRefresh
           THEN Ret(m1, Batch(Batch(autoRefreshTick, countdownTick),
                              refreshCmds(m1)))
           ELSE Ret(m1, NoCmds)
      [] k = "tab" ->
           IF Len(mm.stations) > 0
           THEN Ret([mm EXCEPT !.focus = "STATIONS"], NoCmds)
           ELSE Ret(focusSearchInput(mm), NoCmds)
      [] k = "shift+tab" -> Ret([mm EXCEPT !.focus = "BOARD_MODE"], NoCmds)
      [] k \in {"esc", "/"} -> Ret(focusSearchInput(mm), NoCmds)
      [] k = "q" -> Ret(mm, Quit)
      [] OTHER -> Ret(mm, NoCmds)

\* a handleAutoRefreshTick that shows the board as loading while it refreshes
handleAutoRefreshTickLoading(mm) ==
    IF ~mm.autoRefresh THEN Ret(mm, NoCmds)
    ELSE Ret([mm EXCEPT !.departuresLoading = mm.selectedStation # NilStation],
             Batch(autoRefreshTick, refreshCmds(mm)))

\* a handleAutoRefreshTick that arms no next tick
handleAutoRefreshTickOnce(mm) ==
    IF ~mm.autoRefresh THEN Ret(mm, NoCmds) ELSE Ret(mm, refreshCmds(mm))

\* a handleAutoRefreshTick that does not look at autoRefresh
handleAutoRefreshTickAlways(mm) ==
    Ret(mm, Batch(autoRefreshTick, refreshCmds(mm)))

handleAutoRefreshTick(mm) ==
    IF ~mm.autoRefresh THEN Ret(mm, NoCmds)
    ELSE Ret(mm, Batch(autoRefreshTick, refreshCmds(mm)))

handleCountdownTick(mm) ==
    IF ~mm.autoRefresh THEN Ret(mm, NoCmds)
    ELSE Ret(mm, countdownTick)

\* a page of at least five stops
journeyPageSizeAtLeastFive(mm) == Max(5, GoDiv(mm.height - 10, 3))

\* the page of the journey stops, which take about 3 lines each
journeyPageSize(mm) ==
    IF GoDiv(mm.height - 10, 3) < 1 THEN 5 ELSE GoDiv(mm.height - 10, 3)

handleJourneyKeys(mm, k) ==
    LET n == Len(mm.journey.Stops)
        m0 == IF ~mm.journey.isNil
              THEN [mm EXCEPT !.journeyScroll = clampCursor(mm.journeyScroll, n)]
              ELSE mm
        c == m0.journeyScroll
        manual(cc) == [m0 EXCEPT !.journeyScroll = cc,
                                 !.journeyManualScroll = TRUE]
    IN
    CASE k = "q" -> Ret(m0, Quit)
      [] k \in {"tab", "/"} -> Ret(focusSearchInput(m0), NoCmds)
      [] k = "shift+tab" -> Ret([m0 EXCEPT !.focus = "DEPARTURES"], NoCmds)
      [] k = "esc" -> Ret([m0 EXCEPT !.focus = "DEPARTURES"], NoCmds)
      [] k \in {"j", "down"} ->
           IF ~m0.journey.isNil /\ c < n - 1 THEN Ret(manual(c + 1), NoCmds)
           ELSE Ret(m0, NoCmds)
      [] k \in {"k", "up"} ->
           IF c > 0 THEN Ret(manual(c - 1), NoCmds) ELSE Ret(m0, NoCmds)
      [] k = "pgdown" ->
           IF ~m0.journey.isNil /\ n > 0
           THEN Ret(manual(IF c + journeyPageSize(m0) >= n THEN n - 1
                           ELSE c + journeyPageSize(m0)), NoCmds)
           ELSE Ret(m0, NoCmds)
      [] k = "pgup" ->
           IF ~m0.journey.isNil /\ n > 0
           THEN Ret(manual(Max(c - journeyPageSize(m0), 0)), NoCmds)
           ELSE Ret(m0, NoCmds)
      [] k = "home" -> Ret(manual(0), NoCmds)
      [] k = "end" ->
           IF ~m0.journey.isNil /\ n > 0 THEN Ret(manual(n - 1), NoCmds)
           ELSE Ret(m0, NoCmds)
      [] OTHER -> Ret(m0, NoCmds)

---------------------------------------------------------------------------
(* filterbar.go *)

\* re-fetches departures/arrivals if a station is selected
refetchBoard(mm) ==
    IF mm.selectedStation # NilStation
    THEN LET m1 == [mm EXCEPT !.departuresLoading = TRUE,
                              !.departuresErr = NoErr,
                              !.departures = <<>>,
                              !.departureCursor = 0,
                              !.showJourney = FALSE,
                              !.journey = NilJourney]
         IN Ret(m1, fetchBoard(m1.selectedStation, selectedModes(m1),
                               m1.boardMode))
    ELSE Ret(mm, NoCmds)

toggleAllModes(mm) ==
    LET anyOff == \E i \in 1..Len(mm.modeFilters) : ~mm.modeFilters[i]
    IN refetchBoard([mm EXCEPT !.modeFilters =
                        [i \in 1..Len(mm.modeFilters) |-> anyOff]])

handleFilterKeys(mm, k) ==
    CASE k \in {"h", "left"} ->
           Ret([mm EXCEPT !.filterCursor =
                    IF mm.filterCursor > 0 THEN mm.filterCursor - 1
                    ELSE mm.filterCursor], NoCmds)
      [] k \in {"l", "right"} ->
           Ret([mm EXCEPT !.filterCursor =
                    IF mm.filterCursor < NumModes - 1 THEN mm.filterCursor + 1
                    ELSE mm.filterCursor], NoCmds)
      [] k \in {" ", "enter"} ->
           refetchBoard([mm EXCEPT !.modeFilters[mm.filterCursor + 1] =
                            ~mm.modeFilters[mm.filterCursor + 1]])
      [] k = "a" -> toggleAllModes(mm)
      [] k = "tab" -> Ret([mm EXCEPT !.focus = "BOARD_MODE"], NoCmds)
      [] k \in {"esc", "/"} -> Ret(focusSearchInput(mm), NoCmds)
      [] k = "q" -> Ret(mm, Quit)
      [] OTHER -> Ret(mm, NoCmds)

handleBoardKeys(mm, k) ==
    CASE k \in {"h", "left"} ->
           Ret([mm EXCEPT !.boardCursor =
                    IF mm.boardCursor > 0 THEN mm.boardCursor - 1
                    ELSE mm.boardCursor], NoCmds)
      [] k \in {"l", "right"} ->
           Ret([mm EXCEPT !.boardCursor =
                    IF mm.boardCursor < 1 THEN mm.boardCursor + 1
                    ELSE mm.boardCursor], NoCmds)
      [] k \in {" ", "enter"} ->
           refetchBoard([mm EXCEPT !.boardMode =
                            IF mm.boardCursor = 0 THEN "DEPARTURE"
                            ELSE "ARRIVAL"])
      [] k = "tab" -> Ret([mm EXCEPT !.focus = "AUTO_REFRESH"], NoCmds)
      [] k \in {"esc", "/"} -> Ret(focusSearchInput(mm), NoCmds)
      [] k = "q" -> Ret(mm, Quit)
      [] OTHER -> Ret(mm, NoCmds)

---------------------------------------------------------------------------
(* view.go and destinations.go: the pure functions behind the rendering *)

\* a visibleRange that starts a whole window before the cursor
visibleRangeWholeWindow(cursor, total, maxVisible) ==
    IF total <= maxVisible THEN <<0, total>>
    ELSE LET start0 == Max(cursor - maxVisible, 0)
         IN IF start0 + maxVisible > total
            THEN <<Max(total - maxVisible, 0), total>>
            ELSE <<start0, start0 + maxVisible>>

\* visibleRange: the window <<start, end>> of a scrollable list
visibleRange(cursor, total, maxVisible) ==
    IF total <= maxVisible THEN <<0, total>>
    ELSE LET start0 == Max(cursor - GoDiv(maxVisible, 2), 0)
         IN IF start0 + maxVisible > total
            THEN <<Max(total - maxVisible, 0), total>>
            ELSE <<start0, start0 + maxVisible>>

\* whether every destination filter is on (the allActive loop)
allActive(filters) == \A i \in 1..Len(filters) : filters[i]

\* the destinations whose filter is on (the active map)
activeDestinations(mm) ==
    {mm.destinationList[i] :
        i \in {j \in 1..Len(mm.destinationList) :
                  j <= Len(mm.destinationFilters) /\ mm.destinationFilters[j]}}

\* a filteredDepartures without the shortcut for all filters on
filteredDeparturesNoShortcut(mm) ==
    IF Len(mm.destinationList) = 0 THEN mm.departures
    ELSE SelectSeq(mm.departures,
                   LAMBDA dep : dep.Destination \in activeDestinations(mm))

filteredDepartures(mm) ==
    IF Len(mm.destinationList) = 0 THEN mm.departures
    ELSE IF allActive(mm.destinationFilters) THEN mm.departures
    ELSE SelectSeq(mm.departures,
                   LAMBDA dep : dep.Destination \in activeDestinations(mm))

\* what renderDepartureList puts under its title
renderDepartureList(mm) ==
    IF mm.departuresLoading THEN "loading"
    ELSE IF mm.departuresErr # NoErr THEN "error"
    ELSE IF mm.selectedStation = NilStation THEN "select a station"
    ELSE IF Len(filteredDepartures(mm)) = 0 THEN "no departures"
    ELSE "rows"

\* what renderJourneyDetail puts under its title
renderJourneyDetail(mm) ==
    IF mm.journeyLoading THEN "loading"
    ELSE IF mm.journeyErr # NoErr THEN "error"
    ELSE IF mm.journey.isNil THEN "select a departure"
    ELSE IF Len(mm.journey.Stops) = 0 THEN "no stops"
    ELSE "rows"

\* renderRightPanel: the departure list, and under it the journey panel if a
\* journey is shown
renderRightPanel(mm) ==
    IF mm.showJourney /\ ~mm.journey.isNil
    THEN [departures |-> renderDepartureList(mm),
          journey |-> renderJourneyDetail(mm)]
    ELSE [departures |-> renderDepartureList(mm), journey |-> "absent"]

---------------------------------------------------------------------------
(* update.go: dispatch *)

handleKey(mm, k) ==
    CASE k = "ctrl+c" -> Ret(mm, Quit)
      [] k # "ctrl+c" /\ mm.focus = "SEARCH" -> handleSearchKeys(mm, k)
      [] k # "ctrl+c" /\ mm.focus = "FILTERS" -> handleFilterKeys(mm, k)
      [] k # "ctrl+c" /\ mm.focus = "BOARD_MODE" -> handleBoardKeys(mm, k)
      [] k # "ctrl+c" /\ mm.focus = "AUTO_REFRESH" ->
           handleAutoRefreshKeys(mm, k)
      [] k # "ctrl+c" /\ mm.focus = "STATIONS" -> handleStationKeys(mm, k)
      [] k # "ctrl+c" /\ mm.focus = "DEPARTURES" -> handleDepartureKeys(mm, k)
      [] k # "ctrl+c" /\ mm.focus = "JOURNEY" -> handleJourneyKeys(mm, k)
      [] OTHER -> Ret(mm, NoCmds)

\* Update: msg.type names the Go type of the message
Update(mm, msg) ==
    CASE msg.type = "WindowSizeMsg" ->
           Ret([mm EXCEPT !.height = msg.Height], NoCmds)
      [] msg.type = "searchResultMsg" -> handleSearchResult(mm, msg)
      [] msg.type = "departuresResultMsg" -> handleDeparturesResult(mm, msg)
      [] msg.type = "journeyResultMsg" -> handleJourneyResult(mm, msg)
      [] msg.type = "autoRefreshTickMsg" -> handleAutoRefreshTick(mm)
      [] msg.type = "countdownTickMsg" -> handleCountdownTick(mm)
      [] msg.type = "KeyMsg" -> handleKey(mm, msg.key)

---------------------------------------------------------------------------
(* cache/file_cache.go *)

\* the cache keys (request URLs) and the bodies stored under them
Keys == {"url1", "url2"}
Values == {1, 2}

\* keyToFilename: the hex SHA-256 of the key with the suffix .json, one file
\* name per key
keyToFilename(key) == IF key = "url1" THEN "h1.json" ELSE "h2.json"
Filenames == {keyToFilename(key) : key \in Keys}

\* a file of the directory: whether it exists and the document it holds
NoFile == [exists |-> FALSE, content |-> <<>>]
File(doc) == [exists |-> TRUE, content |-> doc]

\* json.Marshal of a cacheEntry: the document of its two fields
Marshal(entry) == <<entry.Data, entry.ExpiresAt>>
\* json.Unmarshal into a cacheEntry: fails on a document that is not one
Unmarshal(doc) ==
    IF Len(doc) = 2
    THEN [err |-> FALSE, entry |-> [Data |-> doc[1], ExpiresAt |-> doc[2]]]
    ELSE [err |-> TRUE, entry |-> [Data |-> 0, ExpiresAt |-> 0]]
\* a file that does not hold a cache entry
Garbage == <<0>>

Miss(dir) == [ok |-> FALSE, data |-> 0, files |-> dir]
Remove(dir, filename) == [dir EXCEPT ![filename] = NoFile]

\* a Get that leaves an expired entry in place
GetKeepExpired(dir, key, now) ==
    LET filename == keyToFilename(key)
        read == Unmarshal(dir[filename].content)
    IN IF ~dir[filename].exists THEN Miss(dir)
       ELSE IF read.err THEN Miss(Remove(dir, filename))
       ELSE IF now > read.entry.ExpiresAt THEN Miss(dir)
       ELSE [ok |-> TRUE, data |-> read.entry.Data, files |-> dir]

\* FileCache.Get at the instant now: the value returned and the directory
\* it leaves
Get(dir, key, now) ==
    LET filename == keyToFilename(key)
        read == Unmarshal(dir[filename].content)
    IN IF ~dir[filename].exists THEN Miss(dir)
       \* invalid cache entry, remove it
       ELSE IF read.err THEN Miss(Remove(dir, filename))
       \* check if expired
       ELSE IF now > read.entry.ExpiresAt THEN Miss(Remove(dir, filename))
       ELSE [ok |-> TRUE, data |-> read.entry.Data, files |-> dir]

\* FileCache.Set at the instant now: the directory it leaves
Set(dir, key, value, now) ==
    [dir EXCEPT ![keyToFilename(key)] =
        File(Marshal([Data |-> value, ExpiresAt |-> now + TTL]))]

---------------------------------------------------------------------------
(* The Bubble Tea runtime: it hands one message at a time to Update, keeps   *)
(* the returned Model and starts the returned commands; every started task *)
(* and timer later delivers its message, in any order.                     *)

NoBoard == [eva |-> NilStation, modes |-> <<>>, mode |-> "DEPARTURE"]

\* whether msg carries the tag of what the Model now waits for: the current
\* search, the selected station, the selected journey
tagMatches(mm, msg) ==
    CASE msg.type = "searchResultMsg" -> msg.seq = mm.searchSeq
      [] msg.type = "departuresResultMsg" ->
           mm.selectedStation # NilStation /\ msg.stationEVA = mm.selectedStation
      [] msg.type = "journeyResultMsg" ->
           msg.journeyID = mm.selectedJourneyID
      [] OTHER -> TRUE

\* what is remembered of a message: its type, whether its tag matched when
\* Update received it and whether it carried an error
Seen(mm, msg) ==
    [type |-> msg.type,
     tagged |-> tagMatches(mm, msg),
     failed |-> msg.type \in {"searchResultMsg", "departuresResultMsg",
                              "journeyResultMsg"} /\ msg.err # NoErr]

NoMsg == [type |-> "none", tagged |-> TRUE, failed |-> FALSE]

\* The Model a caller of Update still holds, read after the call has
\* returned the Model after.  The struct is copied (value receiver), but the
\* copy's modeFilters and destinationFilters are slice headers over the
\* backing arrays New and rebuildDestinationList allocated: the handlers
\* write these arrays in place and never assign the fields in Update, so the
\* caller reads the written contents.  Every other field is the caller's own.
callerModel(before, after) ==
    [before EXCEPT !.modeFilters = after.modeFilters,
                   !.destinationFilters = after.destinationFilters]

\* no pure function is under evaluation while the program runs
NoCall == [fn |-> "none"]
NotReturned == [done |-> FALSE]

\* the cache before its first use: nothing set, nothing got
NeverSet == [set |-> FALSE, value |-> 0, at |-> 0]
NeverGot == [key |-> "", ok |-> FALSE, data |-> 0, at |-> 0]
NoCache ==
    /\ files = [f \in Filenames |-> NoFile]
    /\ clock = 0
    /\ lastSet = [k \in Keys |-> NeverSet]
    /\ lastGet = NeverGot

Init ==
    /\ m = New
    /\ pendingSearch = {}
    /\ pendingBoard = EmptyBag
    /\ pendingJourney = EmptyBag
    /\ autoTicks = 0
    /\ countdownTicks = 0
    /\ running = TRUE
    /\ lastMsg = NoMsg
    /\ boardSource = NoBoard
    /\ call = NoCall
    /\ ret = NotReturned
    /\ NoCache

\* the runtime hands msg to Update, keeps the Model and starts the commands
\* it returns, the other tasks being ps, pb, pj and the other timers at, ct;
\* src is the board fetch on display if msg is taken for display
Run(msg, ps, pb, pj, at, ct, src) ==
    LET r == Update(m, msg) IN
    /\ running
    /\ m' = r.m
    /\ lastMsg' = Seen(m, msg)
    /\ pendingSearch' = ps \cup r.cmds.search
    /\ pendingBoard' = pb (+) SetToBag(r.cmds.board)
    /\ pendingJourney' = pj (+) SetToBag(r.cmds.journey)
    /\ autoTicks' = at + r.cmds.autoTick
    /\ countdownTicks' = ct + r.cmds.countdownTick
    /\ running' = ~r.cmds.quit
    /\ boardSource' = IF r.m.departures = <<>> THEN NoBoard ELSE src
    /\ UNCHANGED <<call, ret>>
    /\ UNCHANGED cacheVars
    \* the bounds of the model
    /\ r.m.searchSeq <= MaxSeq
    /\ BagCardinality(pendingBoard') + BagCardinality(pendingJourney')
          <= MaxPending
    /\ autoTicks' <= MaxTicks
    /\ countdownTicks' <= MaxTicks

\* a key press or a resize: no task or timer completes
Input(msg) ==
    Run(msg, pendingSearch, pendingBoard, pendingJourney, autoTicks,
        countdownTicks, boardSource)

KeyMsg(k) == [type |-> "KeyMsg", key |-> k]

\* the user presses one of the keys K while the panel f has the focus
Press(f, K) == m.focus = f /\ \E k \in K : Input(KeyMsg(k))

Resize(H) == \E h \in H : Input([type |-> "WindowSizeMsg", Height |-> h])

\* the messages a searchStations task with tag seq can deliver
SearchResults(seq, lists) ==
    {[type |-> "searchResultMsg", seq |-> seq, locations |-> l, err |-> NoErr] :
        l \in lists}
    \cup {[type |-> "searchResultMsg", seq |-> seq, locations |-> <<>>,
           err |-> e] : e \in Errs}

\* the messages a fetchBoard task for the request req can deliver
BoardResults(req, lists) ==
    {[type |-> "departuresResultMsg", stationEVA |-> req.eva,
      departures |-> d, err |-> NoErr] : d \in lists}
    \cup {[type |-> "departuresResultMsg", stationEVA |-> req.eva,
           departures |-> <<>>, err |-> e] : e \in Errs}

\* the messages a fetchJourney task can deliver; GetJourney returns the
\* journey under the requested id (ToJourney); now is the instant time.Now()
\* returns when Update handles the message
JourneyResults(journeyID, lists, instants) ==
    {[type |-> "journeyResultMsg", journeyID |-> journeyID,
      journey |-> Journey(journeyID, st), err |-> NoErr, now |-> t] :
        st \in lists, t \in instants}
    \cup {[type |-> "journeyResultMsg", journeyID |-> journeyID,
           journey |-> NilJourney, err |-> e, now |-> 0] : e \in Errs}

\* whether Update takes the departures of msg for display
boardAccepted(mm, msg) ==
    /\ tagMatches(mm, msg)
    /\ msg.err = NoErr

SearchDone(seq, msg) ==
    Run(msg, pendingSearch \ {seq}, pendingBoard, pendingJourney, autoTicks,
        countdownTicks, boardSource)

BoardDone(req, msg) ==
    Run(msg, pendingSearch, pendingBoard (-) SetToBag({req}), pendingJourney,
        autoTicks, countdownTicks,
        IF boardAccepted(m, msg) THEN req ELSE boardSource)

JourneyDone(journeyID, msg) ==
    Run(msg, pendingSearch, pendingBoard,
        pendingJourney (-) SetToBag({journeyID}), autoTicks, countdownTicks,
        boardSource)

\* a running task completes with one of the replies the API can give
SearchReply(lists) ==
    \E seq \in pendingSearch : \E msg \in SearchResults(seq, lists) :
        SearchDone(seq, msg)

BoardReply(lists) ==
    \E req \in BagToSet(pendingBoard) : \E msg \in BoardResults(req, lists) :
        BoardDone(req, msg)

JourneyReply(lists, instants) ==
    \E id \in BagToSet(pendingJourney) :
        \E msg \in JourneyResults(id, lists, instants) : JourneyDone(id, msg)

\* an armed timer fires
AutoRefreshTick ==
    /\ autoTicks > 0
    /\ Run([type |-> "autoRefreshTickMsg"], pendingSearch, pendingBoard,
           pendingJourney, autoTicks - 1, countdownTicks, boardSource)

CountdownTick ==
    /\ countdownTicks > 0
    /\ Run([type |-> "countdownTickMsg"], pendingSearch, pendingBoard,
           pendingJourney, autoTicks, countdownTicks - 1, boardSource)

---------------------------------------------------------------------------
(* Spec: searching, selecting a station and re-targeting its board.  The   *)
(* user types a query, searches, walks the station list, selects, toggles  *)
(* a transport mode filter and walks the departures.                       *)

SearchKey == Press("SEARCH", {"x", "enter", "tab"})
FilterKey == Press("FILTERS", {" ", "/"})
StationKey == Press("STATIONS", {"j", "enter", "tab"})
DepartureKey == Press("DEPARTURES", {"j", "/"})
SearchResult == SearchReply(StationLists)
BoardResult == BoardReply(DepartureLists)

Next ==
    \/ SearchKey
    \/ FilterKey
    \/ StationKey
    \/ DepartureKey
    \/ SearchResult
    \/ BoardResult

Spec == Init /\ [][Next]_vars

---------------------------------------------------------------------------
(* Properties of the board of the selected station, checked under Spec *)

\* the board fetch the Model's station, mode filters and board mode ask for:
\* every handler that changes one of them while a station is selected emits
\* this fetch (handleSearchResult, handleStationKeys, refetchBoard)
latestBoardFetch ==
    [eva |-> m.selectedStation, modes |-> selectedModes(m), mode |-> m.boardMode]

\* C1: once every emitted board fetch has delivered its result, the
\* departures on display are those returned for the most recently emitted
\* fetch, never those of a superseded one
C1_DisplayedBoardIsLatest ==
    (pendingBoard = EmptyBag /\ m.departures # <<>>)
        => boardSource = latestBoardFetch

\* every departuresResultMsg a task can deliver for the station eva
AnyBoardResult(eva) == BoardResults([eva |-> eva], DepartureLists)

\* every message Update can be handed
AllKeys ==
    {"enter", "esc", "tab", "shift+tab", "up", "down", "j", "k", "pgup",
     "pgdown", "home", "end", " ", "a", "/", "h", "l", "left", "right", "q",
     "ctrl+c", "x"}
Seqs == 0..(MaxSeq + 1)
JourneyIDs == {"j1", "j2"}
AnyMsg ==
    {KeyMsg(k) : k \in AllKeys}
    \cup {[type |-> "WindowSizeMsg", Height |-> h] : h \in Heights}
    \cup {[type |-> "autoRefreshTickMsg"], [type |-> "countdownTickMsg"]}
    \cup UNION {SearchResults(seq, StationLists) : seq \in Seqs}
    \cup UNION {AnyBoardResult(eva) : eva \in EVAs}
    \cup UNION {JourneyResults(id, StopLists, Instants) : id \in JourneyIDs}

\* C3: Update with a BoardResult while no station is selected or for another
\* station than the selected one returns the Model unchanged in every field
\* and emits no task
C3_MismatchedBoardResultIgnored ==
    \A eva \in EVAs : \A msg \in AnyBoardResult(eva) :
        (m.selectedStation = NilStation \/ msg.stationEVA # m.selectedStation)
            => Update(m, msg) = Ret(m, NoCmds)

\* C3 witness: a result for a station that is no longer the selected one has
\* been handed to Update while that station's own board is on display
C3_Witness ==
    /\ lastMsg.type = "departuresResultMsg"
    /\ ~lastMsg.tagged
    /\ m.selectedStation # NilStation
    /\ m.departures # <<>>

cursorInRange(c, n) == IF n = 0 THEN c = 0 ELSE 0 <= c /\ c < n

\* C6: each list cursor is 0 when its list is empty and otherwise lies in
\* [0, len(list))
C6_CursorsInRange ==
    /\ cursorInRange(m.stationCursor, Len(m.stations))
    /\ cursorInRange(m.departureCursor, Len(m.departures))
    /\ cursorInRange(m.destinationCursor, Len(m.destinationList))

\* the destination names in (case-sensitive) string order
DestinationOrder == <<"A", "B">>
sortedDestinations(deps) ==
    SelectSeq(DestinationOrder,
              LAMBDA d : \E i \in 1..Len(deps) : deps[i].Destination = d)

\* C8: destinationList is the sorted list of distinct destination names of
\* the current departures, and destinationFilters has the same length
C8_DestinationListDerived ==
    /\ m.destinationList = sortedDestinations(m.departures)
    /\ Len(m.destinationFilters) = Len(m.destinationList)

\* C20: Update never mutates the Model value it receives: after the call the
\* caller's Model has the same modeFilters and destinationFilters contents
\* and the same other fields as before
C20_UpdateLeavesCallerModel ==
    \A msg \in AnyMsg : callerModel(m, Update(m, msg).m) = m

\* whether a departure of deps has the journey id
onBoard(deps, journeyID) == \E i \in 1..Len(deps) : deps[i].JourneyID = journeyID

\* C11: when an accepted BoardResult replaces a non-empty departures list and
\* the journey id under the cursor before the refresh still occurs in the new
\* list, the cursor points to a departure with that journey id afterwards
C11_CursorKeepsJourneyAcrossRefresh ==
    [][(/\ lastMsg'.type = "departuresResultMsg"
        /\ lastMsg'.tagged
        /\ ~lastMsg'.failed
        /\ m.departures # <<>>
        /\ m.departureCursor < Len(m.departures)
        /\ onBoard(m'.departures,
                   m.departures[m.departureCursor + 1].JourneyID))
       => /\ m'.departureCursor < Len(m'.departures)
          /\ m'.departures[m'.departureCursor + 1].JourneyID
                 = m.departures[m.departureCursor + 1].JourneyID]_vars

---------------------------------------------------------------------------
(* SpecSearch: the search input.  The user types blanks and letters,       *)
(* submits, clears the input and returns to it from the station list,      *)
(* while the searches started so far answer in any order.                  *)

TypeKey == Press("SEARCH", {" ", "x", "enter", "esc"})
StationListKey == Press("STATIONS", {"/", "k"})
SearchAnswer == SearchReply(StationLists)

NextSearch == TypeKey \/ StationListKey \/ SearchAnswer
SpecSearch == Init /\ [][NextSearch]_vars

\* C2: Update with a SearchResult whose seq differs from searchSeq returns
\* the Model unchanged in every field and emits no task, so that among the
\* search results only one with the current seq alters stations
C2_StaleSearchResultIgnored ==
    \A seq \in Seqs : \A msg \in SearchResults(seq, StationLists) :
        LET r == Update(m, msg)
        IN /\ seq # m.searchSeq => r = Ret(m, NoCmds)
           /\ r.m.stations # m.stations => seq = m.searchSeq

\* C2 witness: the result of a superseded search has been handed to Update
\* while the newer search is still loading
C2_Witness ==
    /\ lastMsg.type = "searchResultMsg"
    /\ ~lastMsg.tagged
    /\ m.stationsLoading
    /\ m.searchSeq \in pendingSearch

\* a query with a rune other than the blank
nonBlank(q) == \E i \in 1..Len(q) : q[i] # " "

\* C9: searchSeq changes only when Enter is pressed in the SEARCH focus with
\* a query that is non-empty once trimmed, then by exactly one; it never
\* decreases, a search task carries the searchSeq of its emission, and so no
\* tag in flight is ahead of the current one
C9_SearchSeqStrictlyIncreasing ==
    /\ \A seq \in pendingSearch : seq <= m.searchSeq
    /\ \A msg \in AnyMsg :
          LET r == Update(m, msg)
          IN /\ r.cmds.search \subseteq {r.m.searchSeq}
             /\ \/ r.m.searchSeq = m.searchSeq /\ r.cmds.search = {}
                \/ /\ msg = KeyMsg("enter")
                   /\ m.focus = "SEARCH"
                   /\ nonBlank(m.query)
                   /\ r.m.searchSeq = m.searchSeq + 1
                   /\ r.cmds.search = {r.m.searchSeq}

\* C9 witness: a second search has been submitted while the first is still
\* in flight, and the input holds nothing but a blank
C9_Witness ==
    /\ m.searchSeq = 2
    /\ pendingSearch = {1, 2}
    /\ m.focus = "SEARCH"
    /\ m.query = <<" ">>

---------------------------------------------------------------------------
(* SpecJourney: opening journeys from the board.  The user searches, takes *)
(* the first station, walks its departures, opens and closes journeys and  *)
(* scrolls the stop list, while the journey fetches answer in any order.   *)

QueryKey == Press("SEARCH", {"x", "enter"})
StationTab == Press("STATIONS", {"tab"})
BoardKey == Press("DEPARTURES", {"j", "enter", "esc", "tab"})
JourneyKey == Press("JOURNEY", {"j", "k", "esc"})
StationsFound == SearchReply({<<1>>})
BoardFetched == BoardReply({<<D1, D2>>})
JourneyFetched == JourneyReply(StopLists, Instants)

NextJourney ==
    \/ QueryKey \/ StationTab \/ BoardKey \/ JourneyKey
    \/ StationsFound \/ BoardFetched \/ JourneyFetched
SpecJourney == Init /\ [][NextJourney]_vars

\* C4: a successful JourneyResult whose journeyID differs from
\* selectedJourneyID leaves journey, showJourney, journeyScroll and
\* journeyManualScroll unchanged
C4_StaleJourneyResultDiscarded ==
    [][(/\ lastMsg'.type = "journeyResultMsg"
        /\ ~lastMsg'.tagged
        /\ ~lastMsg'.failed)
       => /\ m'.journey = m.journey
          /\ m'.showJourney = m.showJourney
          /\ m'.journeyScroll = m.journeyScroll
          /\ m'.journeyManualScroll = m.journeyManualScroll]_vars

\* C5: whenever showJourney is true, journey is not nil and its ID is
\* selectedJourneyID
C5_ShownJourneyIsSelected ==
    m.showJourney => ~m.journey.isNil /\ m.journey.ID = m.selectedJourneyID

\* C7: in the state after every step, a non-empty selectedJourneyID is the
\* JourneyID of the departure under the cursor, unless the step has just
\* cleared showJourney
C7_SelectedJourneyUnderCursor ==
    [][m'.selectedJourneyID # ""
       => \/ /\ m'.departureCursor >= 0
             /\ m'.departureCursor < Len(m'.departures)
             /\ m'.departures[m'.departureCursor + 1].JourneyID
                    = m'.selectedJourneyID
          \/ m.showJourney /\ ~m'.showJourney]_vars

\* C10: after any JourneyResult has been processed and with a journey in
\* the Model, 0 <= journeyScroll < max(1, len(journey.Stops))
C10_JourneyScrollInRange ==
    (lastMsg.type = "journeyResultMsg" /\ ~m.journey.isNil)
        => /\ 0 <= m.journeyScroll
           /\ m.journeyScroll < Max(1, Len(m.journey.Stops))

\* C18: whenever journeyLoading is true the rendered right panel contains the
\* journey panel showing the loading line, and whenever journeyErr is non-nil
\* (and nothing is loading) it contains the journey panel showing the error
\* line, as the departure list does for departuresLoading and departuresErr
C18_JourneyErrorRendered ==
    /\ m.journeyLoading => renderRightPanel(m).journey = "loading"
    /\ (m.journeyErr # NoErr /\ ~m.journeyLoading)
          => renderRightPanel(m).journey = "error"

\* the successful JourneyResults a fetchJourney task can deliver
FetchedJourneys ==
    {msg \in UNION {JourneyResults(id, StopLists, Instants) : id \in JourneyIDs} :
        msg.err = NoErr}

\* C21: a successful JourneyResult keeps journeyScroll (clamped to the new
\* stop count) and leaves journeyManualScroll set if and only if a journey
\* was showing and journeyManualScroll was true; in every other case it sets
\* journeyManualScroll = false and journeyScroll to the current stop index,
\* or 0 when there is none
C21_RefreshPreservesManualScroll ==
    \A msg \in FetchedJourneys :
        LET r == Update(m, msg).m
            n == Len(msg.journey.Stops)
            idx == FindCurrentStopIndex(msg.journey.Stops, msg.now)
        IN IF m.showJourney /\ ~m.journey.isNil /\ m.journeyManualScroll
           THEN /\ r.journeyManualScroll
                /\ r.journeyScroll =
                       IF n > 0 /\ m.journeyScroll >= n THEN n - 1
                       ELSE m.journeyScroll
           ELSE /\ ~r.journeyManualScroll
                /\ r.journeyScroll = IF idx >= 0 THEN idx ELSE 0

\* C21 witness: the refresh of a journey the user has scrolled by hand has
\* arrived: the scroll position is still the user's and the flag still set
C21_Witness ==
    /\ lastMsg.type = "journeyResultMsg"
    /\ ~lastMsg.failed
    /\ m.showJourney
    /\ ~m.journey.isNil
    /\ m.journeyManualScroll
    /\ m.journeyScroll = 1

\* C30: in JOURNEY focus, with a journey of at least one stop, every
\* j/k/down/up key press sets journeyManualScroll and moves journeyScroll by
\* one, clamped into [0, len(stops)), also at the first and the last stop
\* where the clamped position does not change
C30_ScrollKeysSetManualFlag ==
    (m.focus = "JOURNEY" /\ ~m.journey.isNil /\ Len(m.journey.Stops) > 0)
    => \A k \in {"j", "down", "k", "up"} :
           LET r == Update(m, KeyMsg(k)).m
               n == Len(m.journey.Stops)
               to == IF k \in {"j", "down"} THEN m.journeyScroll + 1
                     ELSE m.journeyScroll - 1
           IN /\ r.journeyManualScroll
              /\ r.journeyScroll = Max(0, IF to >= n THEN n - 1 ELSE to)

\* the keys that only move the focus, in the panel in focus
focusKeys(mm) ==
    {"tab", "shift+tab", "/"} \cup (IF mm.focus = "JOURNEY" THEN {"esc"} ELSE {})

\* C34: Tab, Shift+Tab, '/' and Esc in JOURNEY focus emit no task and leave
\* stationCursor, departureCursor, journeyScroll, journeyManualScroll, the
\* data lists, showJourney and the journey as they are; when the focus
\* moves, the focus and the search input's focused flag are all that changes
C34_FocusKeysOnlyMoveFocus ==
    \A k \in focusKeys(m) :
        LET r == Update(m, KeyMsg(k)) IN
        /\ r.cmds = NoCmds
        /\ r.m.stationCursor = m.stationCursor
        /\ r.m.departureCursor = m.departureCursor
        /\ r.m.journeyScroll = m.journeyScroll
        /\ r.m.journeyManualScroll = m.journeyManualScroll
        /\ r.m.stations = m.stations
        /\ r.m.departures = m.departures
        /\ r.m.showJourney = m.showJourney
        /\ r.m.journey = m.journey
        /\ r.m.focus # m.focus
              => [r.m EXCEPT !.focus = m.focus,
                             !.inputFocused = m.inputFocused] = m

\* C34 witness: Esc has moved the focus from the journey to the departures
\* with the second departure's journey on display, scrolled by hand to its
\* second stop
C34_Witness ==
    /\ lastMsg.type = "KeyMsg"
    /\ m.focus = "DEPARTURES"
    /\ m.showJourney
    /\ ~m.journey.isNil
    /\ m.departureCursor = 1
    /\ m.journeyScroll = 1
    /\ m.journeyManualScroll

---------------------------------------------------------------------------
(* SpecRelocate: board refreshes under an opened journey.  The user        *)
(* searches, selects the first station (more than once, so that several    *)
(* fetches of its board are in flight) and opens the journey under the     *)
(* cursor, while the boards and the journey arrive in any order.           *)

RelocateQueryKey == Press("SEARCH", {"x", "enter"})
RelocateStationKey == Press("STATIONS", {"enter", "tab"})
RelocateBoardKey == Press("DEPARTURES", {"j", "enter"})
RelocateStationsFound == SearchReply({<<1>>})
RelocateBoardFetched == BoardReply(DepartureLists)
RelocateJourneyFetched == JourneyReply({Timetable(2, 1)}, {1})

NextRelocate ==
    \/ RelocateQueryKey \/ RelocateStationKey \/ RelocateBoardKey
    \/ RelocateStationsFound \/ RelocateBoardFetched \/ RelocateJourneyFetched
SpecRelocate == Init /\ [][NextRelocate]_vars

\* the successful BoardResults Update takes for display in the Model mm
AcceptedBoards(mm) ==
    {msg \in UNION {AnyBoardResult(eva) : eva \in EVAs} : boardAccepted(mm, msg)}

\* C12: when an accepted BoardResult replaces a non-empty departures list
\* while selectedJourneyID is non-empty and on the new list, departureCursor
\* becomes the (first) index of that journey and showJourney, journey and
\* selectedJourneyID are unchanged
C12_RefreshMovesCursorToSelectedJourney ==
    \A msg \in AcceptedBoards(m) :
        (/\ m.departures # <<>>
         /\ m.selectedJourneyID # ""
         /\ onBoard(msg.departures, m.selectedJourneyID))
        => LET r == Update(m, msg).m
               c == r.departureCursor
           IN /\ 0 <= c /\ c < Len(msg.departures)
              /\ msg.departures[c + 1].JourneyID = m.selectedJourneyID
              /\ \A j \in 1..c :
                     msg.departures[j].JourneyID # m.selectedJourneyID
              /\ r.departures = msg.departures
              /\ r.showJourney = m.showJourney
              /\ r.journey = m.journey
              /\ r.selectedJourneyID = m.selectedJourneyID

\* C12 witness: a refreshed board in another order has arrived while the
\* journey j1 is open, and the cursor is on j1 at its new index
C12_Witness ==
    /\ lastMsg.type = "departuresResultMsg"
    /\ lastMsg.tagged /\ ~lastMsg.failed
    /\ m.showJourney
    /\ m.selectedJourneyID = "j1"
    /\ m.departures = <<D2, D1>>
    /\ m.departureCursor = 1

\* C13: when an accepted BoardResult replaces a non-empty departures list
\* while selectedJourneyID is non-empty and not on the new list, the journey
\* view is closed (showJourney = false, journey = nil, selectedJourneyID =
\* "") and departureCursor stays within the new list
C13_RefreshClosesJourneyOffBoard ==
    \A msg \in AcceptedBoards(m) :
        (/\ m.departures # <<>>
         /\ m.selectedJourneyID # ""
         /\ ~onBoard(msg.departures, m.selectedJourneyID))
        => LET r == Update(m, msg).m
           IN /\ ~r.showJourney
              /\ r.journey = NilJourney
              /\ r.selectedJourneyID = ""
              /\ cursorInRange(r.departureCursor, Len(r.departures))

\* the results with an error that pass the staleness check of their handler
FailedResults(mm) ==
    {msg \in UNION {SearchResults(seq, StationLists) : seq \in Seqs}
              \cup UNION {AnyBoardResult(eva) : eva \in EVAs}
              \cup UNION {JourneyResults(id, StopLists, Instants) :
                              id \in JourneyIDs} :
        /\ msg.err # NoErr
        /\ msg.type = "journeyResultMsg" \/ tagMatches(mm, msg)}

\* C17: a result that carries an error and passes its staleness check clears
\* the loading flag of its panel and stores the error there, leaves the data
\* shown (stations, departures, journey) and all cursors unchanged - indeed
\* every other field - and emits no task
C17_ErrorResultKeepsData ==
    \A msg \in FailedResults(m) :
        Update(m, msg) =
            Ret(CASE msg.type = "searchResultMsg" ->
                       [m EXCEPT !.stationsLoading = FALSE,
                                 !.stationsErr = msg.err]
                  [] msg.type = "departuresResultMsg" ->
                       [m EXCEPT !.departuresLoading = FALSE,
                                 !.departuresErr = msg.err]
                  [] msg.type = "journeyResultMsg" ->
                       [m EXCEPT !.journeyLoading = FALSE,
                                 !.journeyErr = msg.err],
                NoCmds)

\* C17 witness: the refresh of an open journey has failed; the error is
\* stored and the journey and the board are still there
C17_Witness ==
    /\ lastMsg.type = "journeyResultMsg"
    /\ lastMsg.failed
    /\ m.journeyErr # NoErr
    /\ ~m.journeyLoading
    /\ m.showJourney
    /\ ~m.journey.isNil
    /\ m.departures # <<>>

\* C14: applying the same accepted BoardResult twice in a row yields the
\* same Model as applying it once, in every field except lastUpdate
C14_BoardResultIdempotent ==
    \A msg \in AcceptedBoards(m) :
        LET once == Update(m, msg).m
            twice == Update(once, msg).m
        IN [twice EXCEPT !.lastUpdate = once.lastUpdate] = once

---------------------------------------------------------------------------
(* SpecRefresh: auto-refresh.  The user searches, goes to the auto-refresh *)
(* chip with or without a station, switches auto-refresh on and off, and   *)
(* the armed timers fire while the refreshed boards arrive.                *)

RefreshQueryKey == Press("SEARCH", {"x", "enter", "shift+tab"})
RefreshStationKey == Press("STATIONS", {"shift+tab"})
RefreshToggleKey == Press("AUTO_REFRESH", {" ", "tab"})
RefreshStationsFound == SearchReply({<<1>>})
RefreshBoardFetched == BoardReply({<<D1, D2>>})

NextRefresh ==
    \/ RefreshQueryKey \/ RefreshStationKey \/ RefreshToggleKey
    \/ RefreshStationsFound \/ RefreshBoardFetched
    \/ AutoRefreshTick \/ CountdownTick
SpecRefresh == Init /\ [][NextRefresh]_vars

\* C19: while auto-refresh is off, Update absorbs every AutoRefreshTick and
\* CountdownTick: it returns the Model unchanged with no command, so that no
\* successor tick is scheduled and no board or journey fetch is emitted
C19_TicksAbsorbedWhenOff ==
    ~m.autoRefresh
    => \A msg \in {[type |-> "autoRefreshTickMsg"],
                    [type |-> "countdownTickMsg"]} :
           Update(m, msg) = Ret(m, NoCmds)

\* C19 witness: auto-refresh was switched on for a selected station and off
\* again, and the timer armed meanwhile has fired: no timer is armed and no
\* fetch is in flight after it
C19_Witness ==
    /\ lastMsg.type = "autoRefreshTickMsg"
    /\ ~m.autoRefresh
    /\ m.selectedStation # NilStation
    /\ m.departures # <<>>
    /\ autoTicks = 0
    /\ pendingBoard = EmptyBag

\* C29: AutoRefreshTick and CountdownTick never change any Model field,
\* whether auto-refresh is on or off: a periodic refresh is silent until its
\* result arrives
C29_TicksLeaveModelUnchanged ==
    \A msg \in {[type |-> "autoRefreshTickMsg"], [type |-> "countdownTickMsg"]} :
        Update(m, msg).m = m

\* C29 witness: with auto-refresh on, a tick has just started a refresh of
\* the board on display: the fetch is in flight, the departures are still
\* shown and nothing is marked as loading
C29_Witness ==
    /\ lastMsg.type = "autoRefreshTickMsg"
    /\ m.autoRefresh
    /\ m.departures # <<>>
    /\ ~m.departuresLoading
    /\ pendingBoard # EmptyBag
    /\ autoTicks > 0

\* C36: at most one AutoRefreshTick timer and at most one CountdownTick
\* timer are pending at any time: the toggle key in AUTO_REFRESH focus never
\* arms a timer next to one that is still pending, so switching auto-refresh
\* off and on again before the tick has fired starts no second chain
C36_OneTimerOfEachKind ==
    /\ autoTicks <= 1
    /\ countdownTicks <= 1
    /\ m.focus = "AUTO_REFRESH"
          => \A k \in {" ", "enter"} :
                 LET r == Update(m, KeyMsg(k)) IN
                 /\ autoTicks + r.cmds.autoTick <= 1
                 /\ countdownTicks + r.cmds.countdownTick <= 1

(* SpecRefreshLive: SpecRefresh with its timers and fetches at work: an    *)
(* armed AutoRefreshTick fires when its 30 seconds are over, whatever the  *)
(* user does meanwhile, and every board fetch is answered.                 *)

SpecRefreshLive ==
    /\ Init
    /\ [][NextRefresh]_vars
    /\ SF_vars(AutoRefreshTick)
    /\ WF_vars(RefreshBoardFetched)

\* an AutoRefreshTick is delivered and its handler emits the board fetch of
\* the selected station
TickFetchesBoard ==
    /\ AutoRefreshTick
    /\ m.selectedStation # NilStation
    /\ Update(m, [type |-> "autoRefreshTickMsg"]).cmds.board =
           fetchBoard(m.selectedStation, selectedModes(m), m.boardMode).board

\* C37: while auto-refresh stays on and a station stays selected, a board
\* fetch for the selected station is emitted infinitely often: every
\* delivered AutoRefreshTick re-arms the next one, so the chain of refreshes
\* never dies unless auto-refresh is switched off
C37_RefreshChainNeverDies ==
    <>[](m.autoRefresh /\ m.selectedStation # NilStation)
        => []<><<TickFetchesBoard>>_vars

\* C37 witness: with auto-refresh on and a station selected, a delivered
\* AutoRefreshTick has emitted a board fetch and left the next tick armed
C37_Witness ==
    /\ lastMsg.type = "autoRefreshTickMsg"
    /\ m.autoRefresh
    /\ m.selectedStation # NilStation
    /\ [eva |-> m.selectedStation, modes |-> selectedModes(m),
        mode |-> m.boardMode] \in BagToSet(pendingBoard)
    /\ autoTicks = 1

---------------------------------------------------------------------------
(* SpecTick: auto-refresh under an opened journey.  The user switches      *)
(* auto-refresh on before searching, takes the first station, opens and    *)
(* closes the journey of its one departure, and the timers fire while the  *)
(* boards and journeys arrive in any order.                                *)

NextTick ==
    \/ Press("SEARCH", {"x", "enter", "shift+tab"})
    \/ Press("AUTO_REFRESH", {" ", "tab"})
    \/ Press("STATIONS", {"tab"})
    \/ Press("DEPARTURES", {"enter", "esc"})
    \/ SearchReply({<<1>>})
    \/ BoardReply({<<D1>>})
    \/ JourneyReply({Timetable(2, 1)}, {1})
    \/ AutoRefreshTick
    \/ CountdownTick
SpecTick == Init /\ [][NextTick]_vars

---------------------------------------------------------------------------
(* SpecFocus: walking the panels.  The user presses Tab and Shift+Tab in   *)
(* every panel, searches (also for something no station matches), and     *)
(* opens a journey, while the results arrive in any order.                *)

NextFocus ==
    \/ Press("SEARCH", {"x", "enter", "tab", "shift+tab"})
    \/ Press("FILTERS", {"tab", "shift+tab"})
    \/ Press("BOARD_MODE", {"tab", "shift+tab"})
    \/ Press("AUTO_REFRESH", {"tab", "shift+tab"})
    \/ Press("STATIONS", {"tab", "shift+tab", "/"})
    \/ Press("DEPARTURES", {"tab", "shift+tab", "enter"})
    \/ Press("JOURNEY", {"tab", "shift+tab"})
    \/ SearchReply({<<>>, <<1>>})
    \/ BoardReply({<<>>, <<D1, D2>>})
    \/ JourneyReply({Timetable(2, 1)}, {1})
SpecFocus == Init /\ [][NextFocus]_vars

\* the panels in focus order, and the position of a panel in that order
FocusOrder ==
    <<"SEARCH", "FILTERS", "BOARD_MODE", "AUTO_REFRESH", "STATIONS",
      "DEPARTURES", "DESTINATIONS", "JOURNEY">>
focusIndex(f) == CHOOSE i \in 1..Len(FocusOrder) : FocusOrder[i] = f

\* whether the panel has something to show
hasData(mm, f) ==
    CASE f = "STATIONS" -> Len(mm.stations) > 0
      [] f = "DEPARTURES" -> Len(mm.departures) > 0
      [] f = "DESTINATIONS" -> Len(mm.destinationList) > 0
      [] f = "JOURNEY" -> mm.showJourney
      [] OTHER -> TRUE

\* the first panel with data that follows position i in focus order, wrapping
\* to SEARCH after JOURNEY
RECURSIVE panelAfter(_, _)
panelAfter(mm, i) ==
    LET j == (i % Len(FocusOrder)) + 1
    IN IF hasData(mm, FocusOrder[j]) THEN FocusOrder[j] ELSE panelAfter(mm, j)

\* C23: Tab moves the focus to the next panel in the order SEARCH, FILTERS,
\* BOARD_MODE, AUTO_REFRESH, STATIONS, DEPARTURES, DESTINATIONS, JOURNEY
\* (wrapping to SEARCH), skipping only the panels without data, so that a
\* full Tab cycle visits every panel with data
C23_TabVisitsEveryPanelWithData ==
    Update(m, KeyMsg("tab")).m.focus = panelAfter(m, focusIndex(m.focus))

\* C24: from every reachable state and every focus, Tab followed at once by
\* Shift+Tab returns the focus to the panel it started on
C24_ShiftTabUndoesTab ==
    Update(Update(m, KeyMsg("tab")).m, KeyMsg("shift+tab")).m.focus = m.focus

\* the successful results the running search with the current seq can deliver
FoundStations ==
    IF m.searchSeq \in pendingSearch
    THEN {msg \in SearchResults(m.searchSeq, StationLists) : msg.err = NoErr}
    ELSE {}

\* C27: a successful SearchResult with the current seq and a non-empty list
\* sets stations to the list, stationCursor = 0, focus = STATIONS, blurs the
\* search input, selects stations[0], clears departures, sets
\* departuresLoading, clears showJourney and journey, and emits exactly one
\* board fetch for stations[0] with the current mode filters and board mode;
\* with an empty list it replaces stations and emits nothing
C27_SearchResultSelectsFirstStation ==
    \A msg \in FoundStations :
        LET r == Update(m, msg) IN
        IF Len(msg.locations) > 0
        THEN /\ r.m.stations = msg.locations
             /\ r.m.stationCursor = 0
             /\ r.m.focus = "STATIONS"
             /\ ~r.m.inputFocused
             /\ r.m.selectedStation = msg.locations[1]
             /\ r.m.departures = <<>>
             /\ r.m.departuresLoading
             /\ ~r.m.showJourney
             /\ r.m.journey = NilJourney
             /\ r.cmds = fetchBoard(msg.locations[1], selectedModes(m),
                                    m.boardMode)
        ELSE /\ r.m = [m EXCEPT !.stations = <<>>,
                                !.stationCursor = 0,
                                !.stationsLoading = FALSE,
                                !.stationsErr = NoErr]
             /\ r.cmds = NoCmds

\* C35: in every reachable state the search input is focused if and only if
\* the focus is SEARCH: every move into SEARCH focuses it and every move out
\* of SEARCH (Tab, Shift+Tab, an accepted non-empty SearchResult) blurs it
C35_InputFocusedIffSearchFocus == m.inputFocused <=> (m.focus = "SEARCH")

\* C35 witness: the focus is back in SEARCH, and the input focused again,
\* after an accepted SearchResult had moved it to the stations found
C35_Witness ==
    /\ m.focus = "SEARCH"
    /\ m.inputFocused
    /\ Len(m.stations) > 0
    /\ lastMsg.type = "KeyMsg"

\* C38: in every reachable state the focused panel has backing data: JOURNEY
\* focus implies showJourney with a non-nil journey, DEPARTURES focus implies
\* departures that are non-empty or loading for a selected station, and
\* STATIONS focus implies a non-empty station list; an event that removes a
\* panel's data also moves the focus off that panel
C38_FocusedPanelHasData ==
    /\ m.focus = "JOURNEY" => (m.showJourney /\ ~m.journey.isNil)
    /\ m.focus = "DEPARTURES"
          => \/ Len(m.departures) > 0
             \/ m.departuresLoading /\ m.selectedStation # NilStation
    /\ m.focus = "STATIONS" => Len(m.stations) > 0

\* C39: in every reachable state no panel has its loading flag set together
\* with an error: not (stationsLoading and stationsErr), not
\* (departuresLoading and departuresErr), not (journeyLoading and journeyErr)
C39_NoLoadingWithError ==
    /\ ~(m.stationsLoading /\ m.stationsErr # NoErr)
    /\ ~(m.departuresLoading /\ m.departuresErr # NoErr)
    /\ ~(m.journeyLoading /\ m.journeyErr # NoErr)

\* C39 witness: the second search is loading, its error cleared, while the
\* board of the station found by the first search shows its error
C39_Witness ==
    /\ m.searchSeq = 2
    /\ m.stationsLoading
    /\ m.stationsErr = NoErr
    /\ m.departuresErr # NoErr
    /\ ~m.departuresLoading

---------------------------------------------------------------------------
(* SpecLoading: the loading flags.  The user searches, selects stations    *)
(* and opens and closes journeys, overtaking the tasks still running;      *)
(* every running task delivers its result in the end (weak fairness of the *)
(* three replies: a task that can deliver stays able to until it does).    *)

NextLoading ==
    \/ Press("SEARCH", {"x", "enter"})
    \/ Press("STATIONS", {"j", "enter", "tab"})
    \/ Press("DEPARTURES", {"enter", "esc"})
    \/ SearchReply({<<>>, <<2, 1>>})
    \/ BoardReply({<<D1, D2>>})
    \/ JourneyReply({Timetable(2, 1)}, {1})
SpecLoading ==
    /\ Init
    /\ [][NextLoading]_vars
    /\ WF_vars(SearchReply({<<>>, <<2, 1>>}))
    /\ WF_vars(BoardReply({<<D1, D2>>}))
    /\ WF_vars(JourneyReply({Timetable(2, 1)}, {1}))

\* a key press that starts a task: a search, a station selection or a
\* journey open (a key press completes no task, so any change of the tasks
\* in flight is an emission)
UserIntent ==
    /\ lastMsg'.type = "KeyMsg"
    /\ <<pendingSearch, pendingBoard, pendingJourney>>'
          # <<pendingSearch, pendingBoard, pendingJourney>>

\* C25: if every emitted task eventually delivers its result and the user
\* eventually stops issuing searches, station selections and journey opens,
\* then stationsLoading, departuresLoading and journeyLoading are eventually
\* false: no dropped stale result leaves a loading flag set forever
C25_LoadingFlagsEventuallyClear ==
    (<>[][~UserIntent]_vars)
    => <>[](~m.stationsLoading /\ ~m.departuresLoading /\ ~m.journeyLoading)

\* C25 witness: the board of a station the user has left has been dropped
\* while the board of the selected station is still loading
C25_Witness ==
    /\ lastMsg.type = "departuresResultMsg"
    /\ ~lastMsg.tagged
    /\ m.departuresLoading
    /\ m.stationsLoading
    /\ pendingBoard # EmptyBag

---------------------------------------------------------------------------
(* The pure functions, each called once on arguments drawn from a bounded  *)
(* set, outside any run of the program.                                    *)

\* the start of a call: the program idle in its initial state
Calls(calls) ==
    /\ m = New
    /\ pendingSearch = {}
    /\ pendingBoard = EmptyBag
    /\ pendingJourney = EmptyBag
    /\ autoTicks = 0
    /\ countdownTicks = 0
    /\ running = TRUE
    /\ lastMsg = NoMsg
    /\ boardSource = NoBoard
    /\ call \in calls
    /\ ret = NotReturned
    /\ NoCache

\* the Model after the key presses, one Update per press
RECURSIVE pressAll(_, _)
pressAll(mm, keys) ==
    IF keys = <<>> THEN mm
    ELSE pressAll(Update(mm, KeyMsg(Head(keys))).m, Tail(keys))

Eval(c) ==
    CASE c.fn = "visibleRange" -> visibleRange(c.cursor, c.total, c.maxVisible)
      [] c.fn = "filteredDepartures" -> filteredDepartures(c.m)
      [] c.fn = "FindCurrentStopIndex" -> FindCurrentStopIndex(c.stops, c.now)
      [] c.fn = "handleKey" -> pressAll(c.m, c.keys)

\* the call returns
Return ==
    /\ call # NoCall
    /\ ~ret.done
    /\ ret' = [done |-> TRUE, value |-> Eval(call)]
    /\ UNCHANGED <<m, pendingSearch, pendingBoard, pendingJourney, autoTicks,
                   countdownTicks, running, lastMsg, boardSource, call>>
    /\ UNCHANGED cacheVars

(* SpecFiltered: filteredDepartures on Models as rebuildDestinationList    *)
(* leaves them: a sorted list of distinct destinations and one filter per  *)
(* destination, over any board of up to two departures.                    *)

BoolSeqs(n) == [1..n -> BOOLEAN]
SmallBoards ==
    {<<>>} \cup {<<d>> : d \in {D0, D1, D2}}
           \cup {<<d, e>> : d \in {D0, D1, D2}, e \in {D0, D1, D2}}
DestinationLists == {<<>>, <<"A">>, <<"B">>, <<"A", "B">>}
FilteredCalls ==
    {[fn |-> "filteredDepartures",
      m |-> [New EXCEPT !.departures = deps,
                        !.destinationList = list,
                        !.destinationFilters = filters]] :
        deps \in SmallBoards,
        list \in DestinationLists,
        filters \in UNION {BoolSeqs(n) : n \in 0..2}}

FilteredCall == call.fn = "filteredDepartures" /\ Return
NextFiltered == FilteredCall
InitFiltered ==
    /\ Calls(FilteredCalls)
    /\ Len(call.m.destinationFilters) = Len(call.m.destinationList)
SpecFiltered == InitFiltered /\ [][NextFiltered]_vars

\* whether the destination has a filter and that filter is on
filterOn(mm, dest) ==
    \E i \in 1..Len(mm.destinationList) :
        /\ mm.destinationList[i] = dest
        /\ i <= Len(mm.destinationFilters)
        /\ mm.destinationFilters[i]

\* C15: filteredDepartures returns exactly departures when every destination
\* filter is on or destinationList is empty, and otherwise the
\* order-preserving sublist of the departures whose destination has its
\* filter on
C15_FilteredDepartures ==
    (call.fn = "filteredDepartures" /\ ret.done)
    => LET mm == call.m IN
       IF mm.destinationList = <<>>
          \/ \A i \in 1..Len(mm.destinationFilters) : mm.destinationFilters[i]
       THEN ret.value = mm.departures
       ELSE ret.value = SelectSeq(mm.departures,
                                  LAMBDA dep : filterOn(mm, dep.Destination))

\* C15 witness: with the filter of A on and that of B off, a board of two
\* departures has been cut down to the one bound for A
C15_Witness ==
    /\ call.fn = "filteredDepartures"
    /\ ret.done
    /\ call.m.destinationList = <<"A", "B">>
    /\ call.m.destinationFilters = <<TRUE, FALSE>>
    /\ call.m.departures = <<D2, D1>>
    /\ ret.value = <<D1>>

(* SpecVisibleRange: visibleRange on every cursor, list length and window  *)
(* height up to the bounds.                                                *)

VisibleRangeCalls ==
    {[fn |-> "visibleRange", cursor |-> c, total |-> n, maxVisible |-> v] :
        n \in 1..MaxTotal, c \in 0..(MaxTotal - 1), v \in 1..MaxVisible}

VisibleRangeCall == call.fn = "visibleRange" /\ Return
NextVisibleRange == VisibleRangeCall
InitVisibleRange == Calls(VisibleRangeCalls) /\ call.cursor < call.total
SpecVisibleRange == InitVisibleRange /\ [][NextVisibleRange]_vars

\* C16: for all N, M >= 1 and 0 <= c < N, visibleRange(c, N, M) returns
\* (start, end) with 0 <= start <= c < end <= N and end - start <= M
C16_VisibleRangeHoldsCursor ==
    (call.fn = "visibleRange" /\ ret.done)
    => LET start == ret.value[1]
           end == ret.value[2]
       IN /\ 0 <= start
          /\ start <= call.cursor
          /\ call.cursor < end
          /\ end <= call.total
          /\ end - start <= call.maxVisible

\* C16 witness: a list longer than the window with the cursor on its last
\* row, the window pulled back from the end of the list
C16_Witness ==
    /\ call.fn = "visibleRange"
    /\ ret.done
    /\ call.total > call.maxVisible
    /\ call.cursor = call.total - 1
    /\ ret.value = <<call.total - call.maxVisible, call.total>>

(* SpecCurrentStop: FindCurrentStopIndex on the stops ToJourney builds of   *)
(* a timetable with one stop every Headway minutes, each stop with or       *)
(* without realtime arrival and departure up to MaxDelay minutes late, at   *)
(* every instant from before the first stop to after the last.             *)

\* the realtime instants the API can report for the scheduled instant t
Realtimes(t) == {NoTime} \cup {t + d : d \in 0..MaxDelay}

\* the halts the API can report for the stop number i
HalteAt(i) ==
    {Halt(i * Headway, ra, i * Headway, rd) :
        ra \in Realtimes(i * Headway), rd \in Realtimes(i * Headway)}

\* the halt lists of journeys with n stops
RECURSIVE HalteLists(_)
HalteLists(n) ==
    IF n = 0 THEN {<<>>}
    ELSE {Append(l, h) : l \in HalteLists(n - 1), h \in HalteAt(n)}

CurrentStopCalls ==
    {[fn |-> "FindCurrentStopIndex", stops |-> ToJourney(halte), now |-> t] :
        halte \in UNION {HalteLists(n) : n \in 1..MaxStops},
        t \in 0..(MaxStops * Headway + MaxDelay)}

CurrentStopCall == call.fn = "FindCurrentStopIndex" /\ Return
NextCurrentStop == CurrentStopCall
InitCurrentStop == Calls(CurrentStopCalls)
SpecCurrentStop == InitCurrentStop /\ [][NextCurrentStop]_vars

\* the largest 0-based index of a stop whose scheduled arrival is set and not
\* after t, -1 if there is none
lastScheduledBy(stops, t) ==
    LET S == {i \in 0..(Len(stops) - 1) :
                 stops[i + 1].SchedArr # NoTime /\ stops[i + 1].SchedArr <= t}
    IN IF S = {} THEN -1 ELSE CHOOSE i \in S : \A j \in S : j <= i

\* C22: for a non-empty stop list, FindCurrentStopIndex(stops, now) is the
\* largest index whose scheduled arrival is <= now - d minutes, d being the
\* delay of the largest-index stop whose scheduled arrival is <= now (0 if
\* there is none), and 0 if no stop qualifies
C22_CurrentStopBySchedule ==
    (call.fn = "FindCurrentStopIndex" /\ ret.done /\ Len(call.stops) > 0)
    => LET stops == call.stops
           p1 == lastScheduledBy(stops, call.now)
           d == IF p1 >= 0 THEN stops[p1 + 1].Delay ELSE 0
           p2 == lastScheduledBy(stops, call.now - d)
       IN ret.value = IF p2 >= 0 THEN p2 ELSE 0

---------------------------------------------------------------------------
(* SpecKeys: the key handlers of the three list panels on Models whose     *)
(* cursor is set directly, as the tests of view.go do (m.stationCursor =   *)
(* 10 on a list of three): the cursor may lie outside the list when the    *)
(* key arrives.  The lists have MinRows..MaxRows rows.                      *)

MinRows == 2
MaxRows == 3
MaxPresses == 3

ListFocuses == {"STATIONS", "DEPARTURES", "JOURNEY"}
StationRows(n) == [i \in 1..n |-> IF i % 2 = 1 THEN 1 ELSE 2]
DepartureRows(n) == [i \in 1..n |-> IF i % 2 = 1 THEN D1 ELSE D2]

\* a Model with n rows in the focused panel, the panel's cursor at c and
\* the terminal h lines high
ListModel(f, n, c, h) ==
    LET m1 == [New EXCEPT !.focus = f,
                          !.inputFocused = FALSE,
                          !.height = h,
                          !.stations = StationRows(n),
                          !.stationCursor = IF f = "STATIONS" THEN c ELSE 0]
        m2 == IF f = "STATIONS" THEN m1
              ELSE [m1 EXCEPT !.selectedStation = 1,
                              !.departures = DepartureRows(n),
                              !.departureCursor =
                                  IF f = "DEPARTURES" THEN c ELSE 0]
    IN IF f # "JOURNEY" THEN m2
       ELSE [m2 EXCEPT !.showJourney = TRUE,
                       !.selectedJourneyID = "j1",
                       !.journey = Journey("j1", Timetable(n, 0)),
                       !.journeyScroll = c]

\* the cursor of the focused panel
listCursor(mm) ==
    CASE mm.focus = "STATIONS" -> mm.stationCursor
      [] mm.focus = "DEPARTURES" -> mm.departureCursor
      [] mm.focus = "JOURNEY" -> mm.journeyScroll

\* the length of the focused panel's list
listLen(mm) ==
    CASE mm.focus = "STATIONS" -> Len(mm.stations)
      [] mm.focus = "DEPARTURES" -> Len(mm.departures)
      [] mm.focus = "JOURNEY" -> Len(mm.journey.Stops)

KeySeqs(K, n) == UNION {[1..i -> K] : i \in 1..n}

\* up to MaxPresses presses of the line keys, the cursor anywhere from one
\* before the list to two past its end
ClampCalls ==
    {[fn |-> "handleKey", m |-> ListModel(f, n, c, 12), keys |-> ks] :
        f \in ListFocuses, n \in MinRows..MaxRows, c \in -1..(MaxRows + 1),
        ks \in KeySeqs({"j", "down", "k", "up"}, MaxPresses)}

\* one press of a page key in a terminal of any of PageHeights lines, the
\* cursor inside a list of 1..MaxRows rows
PageHeights == {0, 10, 11, 12, 13, 16, 25, 40}
PageCalls ==
    {[fn |-> "handleKey", m |-> ListModel(f, n, c, h), keys |-> <<k>>] :
        f \in ListFocuses, n \in 1..MaxRows, c \in 0..(MaxRows - 1),
        h \in PageHeights, k \in {"pgdown", "pgup"}}

\* one key in DEPARTURES focus on a board whose destinations A and B have
\* their filters as rebuildDestinationList and the destination panel leave
\* them, at least one switched off; the cursor is on a row of the board
FilterOffCalls ==
    {[fn |-> "handleKey",
      m |-> [ListModel("DEPARTURES", n, c, 12) EXCEPT
                !.destinationList = <<"A", "B">>,
                !.destinationFilters = filters],
      keys |-> <<k>>] :
        n \in 1..MaxRows, c \in 0..(MaxRows - 1),
        filters \in BoolSeqs(2) \ {<<TRUE, TRUE>>},
        k \in {"enter", "j", "k", "end"}}

NextKeys == Return
SpecKeys ==
    Calls(ClampCalls \cup PageCalls \cup FilterOffCalls) /\ [][NextKeys]_vars

\* the cursor after the line keys on a list of n rows, from the cursor c
RECURSIVE lineKeys(_, _, _)
lineKeys(c, n, keys) ==
    IF keys = <<>> THEN c
    ELSE lineKeys(IF Head(keys) \in {"j", "down"}
                  THEN (IF c < n - 1 THEN c + 1 ELSE n - 1)
                  ELSE (IF c > 0 THEN c - 1 ELSE 0), n, Tail(keys))

\* the cursor as the claim has the handler clamp it: into 0..n-1
clamped(c, n) == IF c < 0 THEN 0 ELSE IF c > n - 1 THEN n - 1 ELSE c

\* C31: in STATIONS, DEPARTURES and JOURNEY focus the handler first clamps
\* the cursor into the list, whatever its value when the key arrives, and
\* then moves it: the cursor after a sequence of line keys is the one the
\* keys lead to from the clamped cursor, so from a cursor at or past the end
\* of a list of n >= 2 rows 'j' leaves it at n - 1 and the next 'k' moves it
\* to n - 2, and no 'k' press is spent on an invisible move
C31_KeysClampFirst ==
    (/\ call.fn = "handleKey"
     /\ ret.done
     /\ \A i \in 1..Len(call.keys) : call.keys[i] \in {"j", "down", "k", "up"})
    => LET n == listLen(call.m)
           c == listCursor(call.m)
       IN /\ listCursor(ret.value) =
                 lineKeys(clamped(c, n), n, call.keys)
          /\ (n >= 2 /\ c >= n - 1
                /\ call.keys \in {<<"j", "k">>, <<"down", "up">>})
                 => listCursor(ret.value) = n - 2
          /\ (n >= 2 /\ c >= n - 1 /\ Head(call.keys) \in {"k", "up"})
                 => listCursor(pressAll(call.m, <<Head(call.keys)>>)) = n - 2

\* C31 witness: the station cursor was two past the end of a list of three
\* when 'j' arrived, and the 'k' after it has moved the cursor to row 1
C31_Witness ==
    /\ call.fn = "handleKey"
    /\ call.m.focus = "STATIONS"
    /\ Len(call.m.stations) = 3
    /\ call.m.stationCursor = 4
    /\ call.keys = <<"j", "k">>
    /\ ret.done
    /\ ret.value.stationCursor = 1

\* a returned call of one page key on a list panel
pageCall(F) ==
    /\ call.fn = "handleKey"
    /\ ret.done
    /\ call.m.focus \in F
    /\ call.keys \in {<<"pgdown">>, <<"pgup">>}

\* the cursor a page of p rows away from the clamped cursor of the call
pagedBy(p) ==
    LET n == listLen(call.m)
        c == clamped(listCursor(call.m), n)
    IN IF call.keys = <<"pgdown">>
       THEN (IF c + p > n - 1 THEN n - 1 ELSE c + p)
       ELSE (IF c - p < 0 THEN 0 ELSE c - p)

\* C32 as claimed: in STATIONS and DEPARTURES focus on a non-empty list PgDn
\* and PgUp move the cursor by max(1, height - 10) rows, clamped to the
\* list, for every terminal height
C32_PageByAtLeastOne ==
    pageCall({"STATIONS", "DEPARTURES"})
    => listCursor(ret.value) = pagedBy(Max(1, call.m.height - 10))

\* C32 amended: in STATIONS and DEPARTURES focus on a non-empty list PgDn
\* and PgUp move the cursor by height - 10 rows, and by 10 rows when
\* height - 10 is less than 1, clamped to the list
C32_PageByHeightOrTen ==
    pageCall({"STATIONS", "DEPARTURES"})
    => listCursor(ret.value) =
           pagedBy(IF call.m.height - 10 >= 1 THEN call.m.height - 10 ELSE 10)

\* C32 witness: PgDn in a terminal of 10 lines has moved the station cursor
\* from row 0 to the last of three rows
C32_Witness ==
    /\ pageCall({"STATIONS"})
    /\ call.m.height = 10
    /\ Len(call.m.stations) = 3
    /\ call.m.stationCursor = 0
    /\ call.keys = <<"pgdown">>
    /\ ret.value.stationCursor = 2

\* C33 as claimed: in JOURNEY focus with a non-empty stop list PgDn and PgUp
\* move journeyScroll by max(5, (height - 10) / 3) stops, clamped into the
\* stop list, for every terminal height, and set journeyManualScroll
C33_PageByAtLeastFive ==
    pageCall({"JOURNEY"})
    => /\ ret.value.journeyScroll =
              pagedBy(Max(5, GoDiv(call.m.height - 10, 3)))
       /\ ret.value.journeyManualScroll

\* C33 amended: in JOURNEY focus with a non-empty stop list PgDn and PgUp
\* move journeyScroll by (height - 10) / 3 stops, and by 5 stops when that
\* is less than 1, clamped into the stop list, and set journeyManualScroll
C33_PageByThirdOrFive ==
    pageCall({"JOURNEY"})
    => /\ ret.value.journeyScroll =
              pagedBy(IF GoDiv(call.m.height - 10, 3) >= 1
                      THEN GoDiv(call.m.height - 10, 3) ELSE 5)
       /\ ret.value.journeyManualScroll

\* C33 witness: PgDn in a terminal of 13 lines has moved journeyScroll from
\* the first of three stops to the second and set journeyManualScroll
C33_Witness ==
    /\ pageCall({"JOURNEY"})
    /\ call.m.height = 13
    /\ Len(call.m.journey.Stops) = 3
    /\ call.m.journeyScroll = 0
    /\ ~call.m.journeyManualScroll
    /\ call.keys = <<"pgdown">>
    /\ ret.value.journeyScroll = 1
    /\ ret.value.journeyManualScroll

---------------------------------------------------------------------------
(* SpecCache: the file cache of the API client.  The client sets and gets  *)
(* bodies under two keys while time passes; the directory is empty at the  *)
(* start or holds a file left behind that is no cache entry.               *)

InitCache ==
    /\ m = New
    /\ pendingSearch = {}
    /\ pendingBoard = EmptyBag
    /\ pendingJourney = EmptyBag
    /\ autoTicks = 0
    /\ countdownTicks = 0
    /\ running = TRUE
    /\ lastMsg = NoMsg
    /\ boardSource = NoBoard
    /\ call = NoCall
    /\ ret = NotReturned
    /\ files \in {[f \in Filenames |-> NoFile],
                  [f \in Filenames |->
                      IF f = "h1.json" THEN File(Garbage) ELSE NoFile]}
    /\ clock = 0
    /\ lastSet = [k \in Keys |-> NeverSet]
    /\ lastGet = NeverGot

\* c.cache.Set(key, value)
CacheSet ==
    \E key \in Keys, value \in Values :
        /\ files' = Set(files, key, value, clock)
        /\ lastSet' = [lastSet EXCEPT
                          ![key] = [set |-> TRUE, value |-> value, at |-> clock]]
        /\ UNCHANGED <<clock, lastGet>>
        /\ UNCHANGED tuiVars

\* c.cache.Get(key)
CacheGet ==
    \E key \in Keys :
        LET r == Get(files, key, clock) IN
        /\ files' = r.files
        /\ lastGet' = [key |-> key, ok |-> r.ok, data |-> r.data, at |-> clock]
        /\ UNCHANGED <<clock, lastSet>>
        /\ UNCHANGED tuiVars

\* a second passes
ClockTick ==
    /\ clock < MaxClock
    /\ clock' = clock + 1
    /\ UNCHANGED <<files, lastSet, lastGet>>
    /\ UNCHANGED tuiVars

NextCache == CacheSet \/ CacheGet \/ ClockTick
SpecCache == InitCache /\ [][NextCache]_vars

\* whether the latest Set for the key has happened and its expiration
\* instant (Set time + TTL) has not passed at the instant t
fresh(key, t) == lastSet[key].set /\ ~(t > lastSet[key].at + TTL)

\* C26: Get returns the bytes stored by the latest Set for the key as long as
\* the entry's expiration instant (Set time + TTL) has not passed; a Get
\* after that instant reports a miss and removes the entry, so that every
\* later Get is a miss too until the next Set for the key
C26_GetUntilExpiration ==
    \A key \in Keys :
        LET r == Get(files, key, clock) IN
        IF fresh(key, clock)
        THEN /\ r.ok
             /\ r.data = lastSet[key].value
        ELSE /\ ~r.ok
             /\ ~r.files[keyToFilename(key)].exists
             /\ \A t \in clock..MaxClock : ~Get(r.files, key, t).ok

\* C26 witness: an entry set and got in time has expired, and the Get after
\* its expiration instant has missed and removed the file
C26_Witness ==
    /\ lastGet.key = "url1"
    /\ ~lastGet.ok
    /\ lastSet["url1"].set
    /\ lastGet.at > lastSet["url1"].at + TTL
    /\ ~files[keyToFilename("url1")].exists
    /\ files[keyToFilename("url2")].exists

====
